---- MODULE Spec2Model ----
(***************************************************************************)
(* A model of the browserclient package: browser-family resolution, TLS    *)
(* template selection, header construction, the thread-profile cache, the  *)
(* redirect check, the retry loop and the navigation history.              *)
(*                                                                         *)
(* Strings are TLA+ strings; strings.Contains, strings.Split and the other *)
(* string functions the code uses are computed character by character.     *)
(***************************************************************************)
EXTENDS Integers, Sequences, FiniteSets, TLC

VARIABLES
    \* --- family resolution and TLS template selection
    userAgent,      \* profile.UserAgent
    randomizeTLS,   \* config.RandomizeTLS
    fingerprint,    \* the ClientHelloID selectFingerprint returned ("" = not dialled)
    browser,        \* the family BuildHeaders resolved ("" = not built)
    fpBrowser,      \* the browserFingerprints key selectFingerprint settled on
    \* --- header construction (HeaderBuilder and the request it stamps)
    language,       \* profile.Language
    hbIsNavigate,   \* HeaderBuilder.isNavigate
    hbReferrer,     \* HeaderBuilder.referrer
    hbOrigin,       \* HeaderBuilder.origin
    reqPath,        \* req.URL.Path of the request being stamped
    reqHeader,      \* req.Header: a map from header key to its value
    built,          \* what stamped reqHeader last: "", "build", "overlay" or "redirect"
    redirectErr,    \* the error the last checkRedirect returned ("" = nil)
    \* --- the process-wide profile cache (profile.go)
    threadProfiles, \* the sync.Map: thread id -> profile pointer
    allocated,      \* how many profiles generateBrowserProfile has allocated
    gpc,            \* each caller's place in GetThreadProfile
    gid,            \* each caller's threadID argument
    gprofile,       \* each caller's newProfile, or the profile it loaded
    returned,       \* every <<threadID, profile>> a call has returned so far
    \* --- GetWithRetry (client.go)
    rpc,            \* place in GetWithRetry: "attempt", "sleep", "exhausted", "done"
    maxRetries,     \* the maxRetries argument
    ri,             \* the loop counter i
    backoff,        \* backoff, in seconds
    lastErr,        \* lastErr ("" = nil)
    attempts,       \* what bc.Get returned at each attempt so far
    sleeps,         \* the delays slept so far, in seconds
    retryResult,    \* what GetWithRetry returned
    \* --- the navigation history (client.go)
    history,        \* bc.history
    requested,      \* the URLs of the requests that succeeded, in order
    hpc,            \* per goroutine: its place in Do
    hurl,           \* per goroutine: the URL of its request
    hopts,          \* per goroutine: opts of mergeOptions
    rwWriter,       \* bc.mu: the goroutine holding the write lock, 0 if none
    rwReaders,      \* bc.mu: the goroutines holding the read lock
    hAccess,        \* every kind of access to bc.history made so far
    hStarted,       \* how many calls of Do have begun
    \* --- one request through its redirect chain (client.go, net/http)
    chainLen,       \* how many redirects the servers answer with
    viaLen,         \* len(via): the requests sent so far
    rdPc,           \* "start", "sent", "done"
    rdErr,          \* the error Do returned ("" = nil)
    \* --- the order a request carries its headers in (net/http)
    carried,        \* two keys of req.Header, the first met before the second when it is ranged over
    \* --- StreamResponse (stream.go)
    sPc,            \* place in StreamResponse: "open", "check", "read", "done"
    sStop,          \* config.StopOnContent
    sMaxBytes,      \* config.MaxBytes
    sBufSize,       \* config.BufferSize
    sBody,          \* the whole body, decompressed, as the source would deliver it
    sSource,        \* the bytes the source has not delivered yet
    sEnd,           \* what the source returns after its last byte: "EOF" or another error
    sBuf,           \* the bytes bufReader holds unread
    sPending,       \* the error bufReader holds to return ("" = none)
    sBytesRead,     \* countingReader.BytesRead
    sContent,       \* contentBuilder
    sFound,         \* found
    sErr,           \* err of line 34: the error the last ReadString returned
    sResult,        \* what StreamResponse returned
    \* --- dialTLS: the handshake and its deadline (fingerprint.go)
    dPc,            \* place in dialTLS: "dial", "select", "done"
    handshake,      \* the handshake goroutine: "", "running" or "returned"
    errChan,        \* errChan, a channel of capacity 1 ("" = nil error)
    ctxErr,         \* handshakeCtx.Err() ("" = not done)
    connOpen,       \* rawConn is open
    dFirst,         \* which came first: "handshake" (its success), "handshake error", "context"
    dResult,        \* what dialTLS returned
    \* --- the cookie jar of a session (client.go)
    cookieJar,      \* bc.cookieJar: the jar it points to (jars are numbered as they are made)
    clientJar,      \* bc.Client.Jar
    jarsMade,       \* how many jars cookiejar.New has made
    cpc,            \* per goroutine: its place in ClearCookies
    cjar,           \* per goroutine: jar, the local of ClearCookies
    jarCookies,     \* the cookies each jar holds
    jarSeen,        \* the pairs <<bc.cookieJar, bc.Client.Jar>> the cookie calls and requests have met
    \* --- Do on a session used by one goroutine (client.go)
    doOptions,      \* the options the last call of Do was given
    doURL,          \* the URL of its request
    doHeader,       \* req.Header of its request when Do was called
    doErr,          \* the error it returned ("" = nil)
    \* --- requests stamped in parallel by the one HeaderBuilder of a session (client.go)
    tpc,            \* per goroutine: its place in SetContext and BuildHeaders
    tctx,           \* per goroutine: the context its request is given (opts, or the previous hop)
    theader         \* per goroutine: req.Header of its request

famVars == <<userAgent, randomizeTLS, fingerprint, browser, fpBrowser>>
hdrVars == <<language, hbIsNavigate, hbReferrer, hbOrigin, reqPath, reqHeader, built,
            redirectErr>>

cacheVars == <<threadProfiles, allocated, gpc, gid, gprofile, returned>>

retryVars == <<rpc, maxRetries, ri, backoff, lastErr, attempts, sleeps, retryResult>>

histVars == <<history, requested, hpc, hurl, hopts, rwWriter, rwReaders, hAccess, hStarted>>
rdVars == <<chainLen, viaLen, rdPc, rdErr>>

wireVars == <<carried>>

streamVars == <<sPc, sStop, sMaxBytes, sBufSize, sBody, sSource, sEnd, sBuf, sPending, sBytesRead, sContent, sFound, sErr, sResult>>

dialVars == <<dPc, handshake, errChan, ctxErr, connOpen, dFirst, dResult>>

jarVars == <<cookieJar, clientJar, jarsMade, cpc, cjar, jarCookies, jarSeen>>

doVars == <<doOptions, doURL, doHeader, doErr>>

stampVars == <<tpc, tctx, theader>>

vars == <<famVars, hdrVars, cacheVars, retryVars, histVars, rdVars, wireVars, streamVars, dialVars, jarVars, doVars, stampVars>>

-----------------------------------------------------------------------------
(* Bounds of the model. *)

\* Concurrent callers of GetThreadProfile, and the profiles they may allocate.
NumCallers == 2
MaxProfiles == 3

\* The largest maxRetries GetWithRetry is called with: the sixth retry is the
\* first whose doubled delay would pass the cap.
MaxRetries == 6

\* How many requests succeed on the sequential session: five past the
\* history's capacity.
MaxRequests == 15

\* How many calls of Do the parallel goroutines begin.
MaxParallelDo == 3

\* The longest redirect chain a server answers with: one past the limit.
MaxChain == 11

\* How many requests succeed on the session whose requests are followed from
\* the options to the headers: the third meets a history of two entries.
MaxDo == 3

\* How many cookie jars are made in all: the session's first and those of
\* the calls of ClearCookies.
MaxJars == 3

\* The longest body StreamResponse is given, in bytes.
MaxBody == 4

\* How many user-agent fragments are concatenated into a synthetic user agent.
MaxFragments == 2

-----------------------------------------------------------------------------
(* strings *)

\* strings.Contains(s, sub)
Contains(s, sub) ==
    \E i \in 1..(Len(s) - Len(sub) + 1) : SubSeq(s, i, i + Len(sub) - 1) = sub

\* strings.Index(s, sub) over the 1-based positions of s; 0 when absent
Index(s, sub) ==
    LET At(i) == SubSeq(s, i, i + Len(sub) - 1) = sub
        positions == 1..(Len(s) - Len(sub) + 1)
    IN IF \E i \in positions : At(i)
       THEN CHOOSE i \in positions : At(i) /\ \A j \in 1..(i - 1) : ~At(j)
       ELSE 0

\* strings.HasPrefix(s, prefix)
HasPrefix(s, prefix) ==
    Len(s) >= Len(prefix) /\ SubSeq(s, 1, Len(prefix)) = prefix

\* strings.LastIndex(s, sub) over 1-based positions; 0 when absent
LastIndex(s, sub) ==
    LET hits == {i \in 1..(Len(s) - Len(sub) + 1) : SubSeq(s, i, i + Len(sub) - 1) = sub}
    IN IF hits = {} THEN 0 ELSE CHOOSE i \in hits : \A j \in hits : i >= j

\* strings.Split(s, sep)[0]: the text before the first sep (all of s without one)
SplitFirst(s, sep) ==
    LET i == Index(s, sep) IN IF i = 0 THEN s ELSE SubSeq(s, 1, i - 1)

\* The text after the first sep; only asked for when s holds sep.
AfterFirst(s, sep) == SubSeq(s, Index(s, sep) + Len(sep), Len(s))

\* len(strings.Split(s, sep)) > 1, for a non-empty sep
SplitsInTwo(s, sep) == Index(s, sep) # 0

\* strings.Split(s, sep)[1]: the text between the first sep and the next one
SplitSecond(s, sep) == SplitFirst(AfterFirst(s, sep), sep)

UpperLetters == "ABCDEFGHIJKLMNOPQRSTUVWXYZ"
LowerLetters == "abcdefghijklmnopqrstuvwxyz"
DecimalDigits == "0123456789"

\* The letters as one-character strings, and the case maps over them.
CharsOf(s) == {SubSeq(s, i, i) : i \in 1..Len(s)}

LowerOf == [c \in CharsOf(UpperLetters) |->
               SubSeq(LowerLetters, Index(UpperLetters, c), Index(UpperLetters, c))]
UpperOf == [c \in CharsOf(LowerLetters) |->
               SubSeq(UpperLetters, Index(LowerLetters, c), Index(LowerLetters, c))]
DigitOf == [c \in CharsOf(DecimalDigits) |-> Index(DecimalDigits, c) - 1]

\* The image of the one-character string c under a case map; c itself when
\* the map does not hold it.
MapChar(c, map) == IF c \in DOMAIN map THEN map[c] ELSE c

RECURSIVE MapString(_, _)
MapString(s, map) ==
    IF s = "" THEN ""
    ELSE MapChar(SubSeq(s, 1, 1), map) \o MapString(SubSeq(s, 2, Len(s)), map)

\* strings.ToLower, for ASCII text
ToLower(s) == MapString(s, LowerOf)

\* textproto.CanonicalMIMEHeaderKey, which http.Header.Get and Set apply to
\* the key: the first letter and every letter after a hyphen in upper case,
\* the others in lower case.
RECURSIVE CanonicalFrom(_, _)
CanonicalFrom(s, upper) ==
    IF s = "" THEN ""
    ELSE LET c == SubSeq(s, 1, 1)
         IN (IF upper THEN MapChar(c, UpperOf) ELSE MapChar(c, LowerOf))
            \o CanonicalFrom(SubSeq(s, 2, Len(s)), c = "-")

\* The header keys the package writes or asks for, with their canonical
\* forms worked out once.
KnownHeaderKeys ==
    { "Host", "Connection", "Cache-Control", "Sec-Ch-Ua", "Sec-Ch-Ua-Mobile",
      "Sec-Ch-Ua-Platform", "Sec-Ch-Ua-Platform-Version",
      "Upgrade-Insecure-Requests", "User-Agent", "Accept", "Sec-Fetch-Site",
      "Sec-Fetch-Mode", "Sec-Fetch-User", "Sec-Fetch-Dest", "Accept-Encoding",
      "Accept-Language", "Cookie", "Referer", "Origin", "DNT", "TE",
      "Authorization", "X-Requested-With", "Content-Type", "Content-Length",
      "authorization" }

CanonicalOfKnown == << >> @@ [k \in KnownHeaderKeys |-> CanonicalFrom(k, TRUE)]

CanonicalMIMEHeaderKey(s) ==
    IF s \in DOMAIN CanonicalOfKnown THEN CanonicalOfKnown[s] ELSE CanonicalFrom(s, TRUE)

\* The value of a run of decimal digits.
RECURSIVE DigitsValue(_, _)
DigitsValue(s, acc) ==
    IF s = "" \/ SubSeq(s, 1, 1) \notin DOMAIN DigitOf THEN acc
    ELSE DigitsValue(SubSeq(s, 2, Len(s)), acc * 10 + DigitOf[SubSeq(s, 1, 1)])

\* fmt.Sscanf(s, "%d", &v): the integer the leading digits of s spell, after
\* leading spaces and an optional sign; `dflt` (v left as it was) when s does
\* not start with a number.
RECURSIVE SscanfInt(_, _)
SscanfInt(s, dflt) ==
    IF s = "" THEN dflt
    ELSE LET c == SubSeq(s, 1, 1)
             rest == SubSeq(s, 2, Len(s))
             startsWithDigit(t) == t # "" /\ SubSeq(t, 1, 1) \in DOMAIN DigitOf
         IN IF c = " " THEN SscanfInt(rest, dflt)
            ELSE IF c = "-" THEN (IF startsWithDigit(rest) THEN 0 - DigitsValue(rest, 0) ELSE dflt)
            ELSE IF c = "+" THEN (IF startsWithDigit(rest) THEN DigitsValue(rest, 0) ELSE dflt)
            ELSE IF startsWithDigit(s) THEN DigitsValue(s, 0)
            ELSE dflt

-----------------------------------------------------------------------------
(* profile.go: the user agents a generated profile can carry *)

userAgents == <<
    "Mozilla/5.0 (Windows NT 10.0; Win64; x64) AppleWebKit/537.36 (KHTML, like Gecko) Chrome/125.0.0.0 Safari/537.36",
    "Mozilla/5.0 (Windows NT 10.0; Win64; x64) AppleWebKit/537.36 (KHTML, like Gecko) Chrome/124.0.0.0 Safari/537.36",
    "Mozilla/5.0 (Windows NT 10.0; Win64; x64) AppleWebKit/537.36 (KHTML, like Gecko) Chrome/123.0.0.0 Safari/537.36",
    "Mozilla/5.0 (Macintosh; Intel Mac OS X 10_15_7) AppleWebKit/537.36 (KHTML, like Gecko) Chrome/125.0.0.0 Safari/537.36",
    "Mozilla/5.0 (X11; Linux x86_64) AppleWebKit/537.36 (KHTML, like Gecko) Chrome/125.0.0.0 Safari/537.36",
    "Mozilla/5.0 (Windows NT 10.0; Win64; x64; rv:126.0) Gecko/20100101 Firefox/126.0",
    "Mozilla/5.0 (Macintosh; Intel Mac OS X 14.5; rv:126.0) Gecko/20100101 Firefox/126.0",
    "Mozilla/5.0 (Macintosh; Intel Mac OS X 14_5) AppleWebKit/605.1.15 (KHTML, like Gecko) Version/17.4.1 Safari/605.1.15" >>

\* Fragments of user agents: BrowserProfile.UserAgent is an exported field, so
\* a profile may carry any string.  The fragments hold every needle the code
\* searches for, and text that holds none of them.
UAFragments ==
    { "Mozilla/5.0 (Macintosh)", "Chrome/125.0.0.0", "Safari/537.36",
      "Firefox/89.0", "Edg/125.0.0.0", "Edge/18.19041", "OPR/110" }

RECURSIVE FragmentUAs(_)
FragmentUAs(n) ==
    IF n = 0 THEN {""}
    ELSE LET shorter == FragmentUAs(n - 1)
         IN shorter \cup {IF u = "" THEN f ELSE u \o " " \o f :
                              u \in shorter, f \in UAFragments}

UserAgentStrings ==
    {userAgents[i] : i \in 1..Len(userAgents)} \cup FragmentUAs(MaxFragments)

-----------------------------------------------------------------------------
(* maps with string keys (Go's map[string]...) *)

EmptyMap == << >>

\* m[k] = v: the map m with key k set to v
Put(m, k, v) == (k :> v) @@ m

\* The sub-machines a specification does not exercise stay in these states.
HdrIdle ==
    /\ language = ""
    /\ hbIsNavigate = TRUE
    /\ hbReferrer = ""
    /\ hbOrigin = ""
    /\ reqPath = ""
    /\ reqHeader = EmptyMap
    /\ built = ""
    /\ redirectErr = ""

FamIdle ==
    /\ userAgent = ""
    /\ randomizeTLS = FALSE
    /\ fingerprint = ""
    /\ browser = ""
    /\ fpBrowser = ""

Callers == 1..NumCallers
ThreadIDs == {1, 2}

CacheIdle ==
    /\ threadProfiles = << >>
    /\ allocated = 0
    /\ gpc = [g \in Callers |-> "idle"]
    /\ gid = [g \in Callers |-> 0]
    /\ gprofile = [g \in Callers |-> 0]
    /\ returned = {}

NoResult == [resp |-> 0, err |-> "", cause |-> "", retries |-> 0]

RetryIdle ==
    /\ rpc = "idle"
    /\ maxRetries = 0
    /\ ri = 0
    /\ backoff = 0
    /\ lastErr = ""
    /\ attempts = << >>
    /\ sleeps = << >>
    /\ retryResult = NoResult

NoOpts == [IsNavigate |-> TRUE, Referrer |-> "", Origin |-> ""]

HistIdle ==
    /\ history = << >>
    /\ requested = << >>
    /\ hpc = [g \in Callers |-> "idle"]
    /\ hurl = [g \in Callers |-> ""]
    /\ hopts = [g \in Callers |-> NoOpts]
    /\ rwWriter = 0
    /\ rwReaders = {}
    /\ hAccess = {}
    /\ hStarted = 0

RdIdle ==
    /\ chainLen = 0
    /\ viaLen = 0
    /\ rdPc = "idle"
    /\ rdErr = ""

WireIdle == carried = << >>

StampIdle ==
    /\ tpc = << >>
    /\ tctx = << >>
    /\ theader = << >>

DoIdle ==
    /\ doOptions = << >>
    /\ doURL = ""
    /\ doHeader = << >>
    /\ doErr = ""

JarIdle ==
    /\ cookieJar = 0
    /\ clientJar = 0
    /\ jarsMade = 0
    /\ cpc = [g \in Callers |-> "idle"]
    /\ cjar = [g \in Callers |-> 0]
    /\ jarCookies = EmptyMap
    /\ jarSeen = {}

NoDial == [conn |-> FALSE, err |-> "", cause |-> ""]

DialIdle ==
    /\ dPc = "idle"
    /\ handshake = ""
    /\ errChan = << >>
    /\ ctxErr = ""
    /\ connOpen = FALSE
    /\ dFirst = ""
    /\ dResult = NoDial

NoStreamResult == [err |-> "", BytesRead |-> 0, Content |-> "", FoundContent |-> FALSE]

StreamIdle ==
    /\ sPc = "idle"
    /\ sStop = ""
    /\ sMaxBytes = 0
    /\ sBufSize = 0
    /\ sBody = ""
    /\ sSource = ""
    /\ sEnd = ""
    /\ sBuf = ""
    /\ sPending = ""
    /\ sBytesRead = 0
    /\ sContent = ""
    /\ sFound = FALSE
    /\ sErr = ""
    /\ sResult = NoStreamResult

-----------------------------------------------------------------------------
(* client.go: detectBrowser *)

Families == {"Chrome", "Firefox", "Safari", "Edge"}

\* A detectBrowser that forgets that Chrome user agents also say "Safari".
detectBrowser_NoChromeExclusion(ua) ==
    IF Contains(ua, "Firefox") THEN "Firefox"
    ELSE IF Contains(ua, "Safari") THEN "Safari"
    ELSE IF Contains(ua, "Edg/") THEN "Edge"
    ELSE "Chrome"

detectBrowser(ua) ==
    IF Contains(ua, "Firefox") THEN "Firefox"
    ELSE IF Contains(ua, "Safari") /\ ~Contains(ua, "Chrome") THEN "Safari"
    ELSE IF Contains(ua, "Edg/") THEN "Edge"
    ELSE "Chrome"

-----------------------------------------------------------------------------
(* fingerprint.go: browserFingerprints and selectFingerprint *)

browserFingerprints ==
    [ Chrome  |-> {"HelloChrome_Auto", "HelloChrome_120"},
      Firefox |-> {"HelloFirefox_Auto", "HelloFirefox_120"},
      Safari  |-> {"HelloSafari_Auto", "HelloSafari_16_0", "HelloIOS_Auto"},
      Edge    |-> {"HelloEdge_Auto", "HelloChrome_120"} ]

\* The keys `for b := range browserFingerprints` can stop at: Go iterates a
\* map in an unspecified order, so the loop breaks at whichever key contained
\* in the user agent comes first in that run's order; "Chrome" when none is.
selectBrowserKeys(ua) ==
    LET matching == {b \in DOMAIN browserFingerprints : Contains(ua, b)}
    IN IF matching = {} THEN {"Chrome"} ELSE matching

\* The pairs <<key, template>> one call of selectFingerprint can produce:
\* r.Intn picks any template of the key's list.
selectFingerprint(ua, randomize) ==
    IF randomize THEN {<<"", "HelloRandomized">>}
    ELSE UNION {{<<b, t>> : t \in browserFingerprints[b]} : b \in selectBrowserKeys(ua)}

\* dialTLS, line 64: the template of a new connection.
DialTLS ==
    /\ \E sel \in selectFingerprint(userAgent, randomizeTLS) :
          /\ fpBrowser' = sel[1]
          /\ fingerprint' = sel[2]
    /\ UNCHANGED <<userAgent, randomizeTLS, browser>>
    /\ UNCHANGED <<hdrVars, cacheVars, retryVars, histVars, rdVars, wireVars, streamVars, dialVars, jarVars, doVars, stampVars>>

\* BuildHeaders, line 457: the family the headers are built for.
ResolveFamily ==
    /\ browser' = detectBrowser(userAgent)
    /\ UNCHANGED <<userAgent, randomizeTLS, fingerprint, fpBrowser>>
    /\ UNCHANGED <<hdrVars, cacheVars, retryVars, histVars, rdVars, wireVars, streamVars, dialVars, jarVars, doVars, stampVars>>

FamilyInit ==
    /\ userAgent \in UserAgentStrings
    /\ randomizeTLS \in BOOLEAN
    /\ fingerprint = ""
    /\ browser = ""
    /\ fpBrowser = ""
    /\ HdrIdle
    /\ CacheIdle
    /\ RetryIdle
    /\ StampIdle
    /\ DoIdle
    /\ JarIdle
    /\ DialIdle
    /\ StreamIdle
    /\ WireIdle
    /\ HistIdle
    /\ RdIdle

FamilyNext == DialTLS \/ ResolveFamily

SpecFamily == FamilyInit /\ [][FamilyNext]_vars

-----------------------------------------------------------------------------
(* client.go: the header engine *)

headerOrder ==
    [ Chrome  |-> << "Host", "Connection", "Cache-Control", "Sec-Ch-Ua",
                     "Sec-Ch-Ua-Mobile", "Sec-Ch-Ua-Platform",
                     "Upgrade-Insecure-Requests", "User-Agent", "Accept",
                     "Sec-Fetch-Site", "Sec-Fetch-Mode", "Sec-Fetch-User",
                     "Sec-Fetch-Dest", "Accept-Encoding", "Accept-Language",
                     "Cookie" >>,
      Firefox |-> << "Host", "User-Agent", "Accept", "Accept-Language",
                     "Accept-Encoding", "Connection",
                     "Upgrade-Insecure-Requests", "Sec-Fetch-Dest",
                     "Sec-Fetch-Mode", "Sec-Fetch-Site", "Sec-Fetch-User",
                     "Cache-Control", "Cookie" >>,
      Safari  |-> << "Host", "Accept-Encoding", "Accept", "User-Agent",
                     "Accept-Language", "Connection", "Cookie" >> ]

getSecFetchSite(referrer, origin) ==
    IF referrer = "" THEN "none"
    ELSE IF origin # "" /\ HasPrefix(referrer, origin) THEN "same-origin"
    ELSE "cross-site"

getSecFetchMode(isNavigate) == IF isNavigate THEN "navigate" ELSE "no-cors"

getSecFetchDest(isNavigate) == IF isNavigate THEN "document" ELSE "empty"

getNavigationAccept(b) ==
    IF b = "Firefox"
    THEN "text/html,application/xhtml+xml,application/xml;q=0.9,image/avif,image/webp,*/*;q=0.8"
    ELSE IF b = "Safari"
    THEN "text/html,application/xhtml+xml,application/xml;q=0.9,*/*;q=0.8"
    ELSE "text/html,application/xhtml+xml,application/xml;q=0.9,image/avif,image/webp,image/apng,*/*;q=0.8,application/signed-exchange;v=b3;q=0.7"

getResourceAccept(path) ==
    LET ext == ToLower(SubSeq(path, LastIndex(path, ".") + 1, Len(path)))
    IN IF ext = "js" THEN "*/*"
       ELSE IF ext = "css" THEN "text/css,*/*;q=0.1"
       ELSE IF ext \in {"jpg", "jpeg", "png", "gif", "webp"}
       THEN "image/avif,image/webp,image/apng,image/svg+xml,image/*,*/*;q=0.8"
       ELSE "*/*"

getAcceptEncoding(b) ==
    IF b = "Safari" THEN "gzip, deflate, br" ELSE "gzip, deflate, br, zstd"

\* The outcomes of the r.Float32() comparisons of one build: each field says
\* whether that draw fell below its threshold.
\* `family` is the one draw addChromeHeaders or addFirefoxHeaders makes.
Draws ==
    [family : BOOLEAN, dnt : BOOLEAN, cacheFirst : BOOLEAN, cacheSecond : BOOLEAN]

\* Each add...Headers operator below gives the entries the function writes to
\* the map it is handed.  m2 @@ m1 is m1 with the entries of m2 written over
\* it, so a later write stands to the left of an earlier one.

\* The entry k -> v when cond holds, no entry otherwise.
EntryIf(cond, k, v) == IF cond THEN k :> v ELSE << >>

\* The three Sec-Fetch-* headers every Chrome build and every recent Firefox
\* build carries.
SecFetchHeaders(isNavigate, referrer, origin) ==
    ("Sec-Fetch-Dest" :> getSecFetchDest(isNavigate))
    @@ ("Sec-Fetch-Mode" :> getSecFetchMode(isNavigate))
    @@ ("Sec-Fetch-Site" :> getSecFetchSite(referrer, origin))

\* addChromeHeaders, lines 538-543: the version the user agent names
chromeVersion(ua) ==
    IF SplitsInTwo(ua, "Chrome/")
    THEN SplitFirst(SplitSecond(ua, "Chrome/"), ".")
    ELSE "126"

\* addChromeHeaders, lines 550-555
chromePlatform(ua) ==
    IF Contains(ua, "Macintosh") THEN "macOS"
    ELSE IF Contains(ua, "X11") THEN "Linux"
    ELSE "Windows"

\* fmt.Sprintf of line 546
SecChUa(version) ==
    "\"Not)A;Brand\";v=\"99\", \"Google Chrome\";v=\"" \o version
    \o "\", \"Chromium\";v=\"" \o version \o "\""

addChromeHeaders(ua, isNavigate, referrer, origin, d) ==
    EntryIf(d.family, "Sec-Ch-Ua-Platform-Version", "\"10.0.0\"")
    @@ EntryIf(isNavigate, "Upgrade-Insecure-Requests", "1")
    @@ EntryIf(isNavigate, "Sec-Fetch-User", "?1")
    @@ SecFetchHeaders(isNavigate, referrer, origin)
    @@ ("Sec-Ch-Ua-Platform" :> ("\"" \o chromePlatform(ua) \o "\""))
    @@ ("Sec-Ch-Ua-Mobile" :> "?0")
    @@ ("Sec-Ch-Ua" :> SecChUa(chromeVersion(ua)))

\* addFirefoxHeaders, lines 578-583: the version the user agent names
firefoxVersion(ua) ==
    IF SplitsInTwo(ua, "Firefox/")
    THEN SscanfInt(SplitFirst(SplitSecond(ua, "Firefox/"), "."), 126)
    ELSE 126

addFirefoxHeaders(ua, isNavigate, referrer, origin, d) ==
    EntryIf(d.family, "TE", "trailers")
    @@ (IF firefoxVersion(ua) >= 90
        THEN EntryIf(isNavigate, "Sec-Fetch-User", "?1")
             @@ SecFetchHeaders(isNavigate, referrer, origin)
        ELSE << >>)
    @@ ("Upgrade-Insecure-Requests" :> "1")

\* An addSafariHeaders that copies Firefox's Sec-Fetch block.
addSafariHeaders_WithSecFetch(ua, isNavigate, referrer, origin, d) ==
    ("Accept-Encoding" :> "gzip, deflate, br")
    @@ SecFetchHeaders(isNavigate, referrer, origin)
    @@ EntryIf(isNavigate, "Upgrade-Insecure-Requests", "1")

addSafariHeaders(ua, isNavigate, referrer, origin, d) ==
    ("Accept-Encoding" :> "gzip, deflate, br")
    @@ EntryIf(isNavigate, "Upgrade-Insecure-Requests", "1")

\* generateHeaders, lines 522-531
randomHeaders(d) ==
    (IF d.cacheFirst THEN "Cache-Control" :> "no-cache"
     ELSE IF d.cacheSecond THEN "Cache-Control" :> "max-age=0"
     ELSE << >>)
    @@ EntryIf(d.dnt, "DNT", "1")

generateHeaders(ua, lang, isNavigate, referrer, origin, path, b, d) ==
    randomHeaders(d)
    @@ EntryIf(origin # "" /\ ~isNavigate, "Origin", origin)
    @@ EntryIf(referrer # "", "Referer", referrer)
    @@ (IF b = "Chrome" THEN addChromeHeaders(ua, isNavigate, referrer, origin, d)
        ELSE IF b = "Firefox" THEN addFirefoxHeaders(ua, isNavigate, referrer, origin, d)
        ELSE IF b = "Safari" THEN addSafariHeaders(ua, isNavigate, referrer, origin, d)
        ELSE << >>)
    @@ ("Accept-Encoding" :> getAcceptEncoding(b))
    @@ ("Accept" :> (IF isNavigate THEN getNavigationAccept(b)
                     ELSE getResourceAccept(path)))
    @@ ("Connection" :> "keep-alive")
    @@ ("Accept-Language" :> lang)
    @@ ("User-Agent" :> ua)

\* http.Header.Get(key): the value stored under the canonical form of key.
HeaderGet(h, key) ==
    IF CanonicalMIMEHeaderKey(key) \in DOMAIN h
    THEN h[CanonicalMIMEHeaderKey(key)] ELSE ""

\* http.Header.Set(key, value)
HeaderSet(h, key, value) == Put(h, CanonicalMIMEHeaderKey(key), value)

\* BuildHeaders, line 464-467: the order table of a family; Chrome's for a
\* family that has none (Edge).
orderOf(b) ==
    IF b \in DOMAIN headerOrder THEN headerOrder[b] ELSE headerOrder["Chrome"]

\* BuildHeaders, lines 470-474: the generated headers of the order table,
\* written to the fresh map.
orderedHeaders(headers, order) ==
    [k \in {order[i] : i \in DOMAIN order} \cap DOMAIN headers |-> headers[k]]

\* BuildHeaders, lines 477-481: every generated header that Get does not find
\* is written after the ordered ones.  (No generated key is the canonical form
\* of another, so the order in which the loop visits the map does not change
\* the result.)
withUnordered(ordered, headers) ==
    [k \in {x \in DOMAIN headers : HeaderGet(ordered, x) = ""} |-> headers[k]]
    @@ ordered

\* BuildHeaders, lines 460-481, from the generated headers
writeHeaders(headers, order) ==
    CHOOSE h \in {withUnordered(o, headers) : o \in {orderedHeaders(headers, order)}} : TRUE

\* req.Header after BuildHeaders: the old collection is dropped and the
\* generated headers are written.
BuildHeaders(ua, lang, isNavigate, referrer, origin, path, d) ==
    CHOOSE h \in
        {writeHeaders(g, orderOf(detectBrowser(ua))) :
            g \in {generateHeaders(ua, lang, isNavigate, referrer, origin, path,
                                   detectBrowser(ua), d)}} : TRUE

-----------------------------------------------------------------------------
(* client.go: checkRedirect *)

\* The number of prior requests at which checkRedirect refuses the next hop.
RedirectLimit == 10

\* The headers checkRedirect carries over from the previous request.
PreservedHeaders == <<"Authorization", "X-Requested-With">>

\* checkRedirect, lines 245-249: the non-empty preserved headers of the
\* previous request, as Set writes them.
\* A redirect check that carries nothing over from the previous request.
preserved_None(prevHeader) == [k \in {} |-> ""]

preserved(prevHeader) ==
    [k \in {CanonicalMIMEHeaderKey(PreservedHeaders[i]) : i \in DOMAIN PreservedHeaders}
           \cap {x \in DOMAIN prevHeader : prevHeader[x] # ""} |-> prevHeader[k]]

\* checkRedirect(req, via) with n = len(via), the previous request's URL and
\* header, and the pending request's header and path: the error it returns,
\* the HeaderBuilder context it leaves and the header of the pending request.
checkRedirect(n, prevURL, prevHeader, pendingHeader, ua, lang, ctx, path, d) ==
    IF n >= RedirectLimit
    THEN [err |-> "stopped after 10 redirects", ctx |-> ctx, header |-> pendingHeader]
    ELSE IF n > 0
    THEN [err |-> "",
          ctx |-> [isNavigate |-> TRUE, referrer |-> prevURL, origin |-> ""],
          header |-> preserved(prevHeader)
                     @@ BuildHeaders(ua, lang, TRUE, prevURL, "", path, d)]
    ELSE [err |-> "", ctx |-> ctx, header |-> pendingHeader]

-----------------------------------------------------------------------------
(* The header engine as a machine: one HeaderBuilder, one request *)

\* profile.go, languages[0]
Languages == {"pt-BR,pt;q=0.9,en;q=0.8"}

\* With these, Sec-Fetch-Site takes each of its values: no referrer; a
\* referrer under the origin; a referrer and no origin to compare it with.
Referrers == {"", "https://a.example/page"}
Origins == {"", "https://a.example"}
Paths == {"/", "/logo.PNG"}
\* opts.Headers of a caller; the key is not in canonical form.
CustomHeaders == {<<"authorization", "Bearer t">>}

\* The user agents the header machine is run on: one of profile.go for each
\* browser and platform, every single fragment, and Edge's pair.
HeaderUserAgents ==
    {userAgents[i] : i \in {1, 4, 5, 6, 8}} \cup FragmentUAs(1)
    \cup {"Chrome/125.0.0.0 Edg/125.0.0.0"}

hbContext == [isNavigate |-> hbIsNavigate, referrer |-> hbReferrer, origin |-> hbOrigin]

\* The URL of the request a redirect hop comes from.
HopFromURL == "https://a.example/page"

\* Do, lines 146-149 (StreamGet, lines 173-180): a new request for some path
\* is made and HeaderBuilder.SetContext is given its context.
SetContext ==
    /\ built # "ctx"
    /\ \E nav \in BOOLEAN, ref \in Referrers, org \in Origins, path \in Paths :
          /\ hbIsNavigate' = nav
          /\ hbReferrer' = ref
          /\ hbOrigin' = org
          /\ reqPath' = path
    /\ reqHeader' = EmptyMap
    /\ built' = "ctx"
    /\ redirectErr' = ""
    /\ carried' = << >>
    /\ UNCHANGED language
    /\ UNCHANGED <<famVars, cacheVars, retryVars, histVars, rdVars, streamVars, dialVars, jarVars, doVars, stampVars>>

\* HeaderBuilder.BuildHeaders on the new request
BuildHeadersStep ==
    /\ built = "ctx"
    /\ \E d \in Draws :
          reqHeader' = BuildHeaders(userAgent, language, hbIsNavigate,
                                    hbReferrer, hbOrigin, reqPath, d)
    /\ built' = "build"
    /\ browser' = detectBrowser(userAgent)
    /\ UNCHANGED <<language, hbIsNavigate, hbReferrer, hbOrigin, reqPath, redirectErr>>
    /\ UNCHANGED <<userAgent, randomizeTLS, fingerprint, fpBrowser>>
    /\ UNCHANGED <<cacheVars, retryVars, histVars, rdVars, wireVars, streamVars, dialVars, jarVars, doVars, stampVars>>

\* Do, lines 155-157: the caller's headers are laid over the built ones.
OverlayHeaders ==
    /\ built = "build"
    /\ \E kv \in CustomHeaders : reqHeader' = HeaderSet(reqHeader, kv[1], kv[2])
    /\ built' = "overlay"
    /\ UNCHANGED <<language, hbIsNavigate, hbReferrer, hbOrigin, reqPath, redirectErr>>
    /\ UNCHANGED <<famVars, cacheVars, retryVars, histVars, rdVars, wireVars, streamVars, dialVars, jarVars, doVars, stampVars>>

\* The transport follows a redirect of the stamped request: checkRedirect is
\* called with the stamped request as the last of n prior ones.
RedirectHop ==
    /\ built \in {"build", "overlay"}
    /\ redirectErr = ""
    /\ \E n \in {1, RedirectLimit}, d \in Draws :
          \E r \in {checkRedirect(n, HopFromURL, reqHeader, reqHeader, userAgent,
                                   language, hbContext, reqPath, d)} :
             /\ redirectErr' = r.err
             /\ hbIsNavigate' = r.ctx.isNavigate
             /\ hbReferrer' = r.ctx.referrer
             /\ hbOrigin' = r.ctx.origin
             /\ reqHeader' = r.header
             /\ built' = IF r.err = "" THEN "redirect" ELSE built
    /\ UNCHANGED <<language, reqPath>>
    /\ UNCHANGED <<famVars, cacheVars, retryVars, histVars, rdVars, wireVars, streamVars, dialVars, jarVars, doVars, stampVars>>

HeadersInit ==
    /\ userAgent \in HeaderUserAgents
    /\ language \in Languages
    /\ hbIsNavigate = TRUE
    /\ hbReferrer = ""
    /\ hbOrigin = ""
    /\ reqPath = ""
    /\ reqHeader = EmptyMap
    /\ built = ""
    /\ redirectErr = ""
    /\ randomizeTLS = FALSE
    /\ fingerprint = ""
    /\ browser = ""
    /\ fpBrowser = ""
    /\ CacheIdle
    /\ RetryIdle
    /\ StampIdle
    /\ DoIdle
    /\ JarIdle
    /\ DialIdle
    /\ StreamIdle
    /\ WireIdle
    /\ HistIdle
    /\ RdIdle

HeadersNext == SetContext \/ BuildHeadersStep \/ OverlayHeaders \/ RedirectHop

SpecHeaders == HeadersInit /\ [][HeadersNext]_vars

-----------------------------------------------------------------------------
(* The order of the stamped request's headers.  req.Header is an            *)
(* http.Header, a Go map (BuildHeaders, line 461, makes a fresh one and     *)
(* lines 472 and 479 assign into it): it keeps no order of insertion, and   *)
(* whoever ranges over it (the transport that writes the request, Do line   *)
(* 160) meets its keys in an order the language leaves unspecified.         *)

\* The stamped request's header is ranged over: any two of its keys can be
\* met in either order.
RangeHeader ==
    /\ built = "build"
    /\ carried = << >>
    /\ \E k1 \in DOMAIN reqHeader, k2 \in DOMAIN reqHeader :
          /\ k1 # k2
          /\ carried' = <<k1, k2>>
    /\ UNCHANGED <<famVars, hdrVars, cacheVars, retryVars, histVars, rdVars, streamVars, dialVars, jarVars, doVars, stampVars>>

\* One user agent of profile.go for each family and platform.
WireUserAgents == {userAgents[i] : i \in {1, 4, 6, 8}}

WireInit == HeadersInit /\ userAgent \in WireUserAgents

WireNext == SetContext \/ BuildHeadersStep \/ RangeHeader

SpecWire == WireInit /\ [][WireNext]_vars

-----------------------------------------------------------------------------
(* profile.go: GetThreadProfile, called by concurrent goroutines.  A profile *)
(* is the pointer generateBrowserProfile returns: the n-th allocation is n.  *)

\* A goroutine calls GetThreadProfile(id).
CallGetThreadProfile(g) ==
    /\ gpc[g] = "idle"
    /\ \E id \in ThreadIDs : gid' = [gid EXCEPT ![g] = id]
    /\ gpc' = [gpc EXCEPT ![g] = "load"]
    /\ UNCHANGED <<threadProfiles, allocated, gprofile, returned>>

\* Line 60-62: threadProfiles.Load(threadID); a hit is returned.
LoadProfile(g) ==
    /\ gpc[g] = "load"
    /\ IF gid[g] \in DOMAIN threadProfiles
       THEN /\ gprofile' = [gprofile EXCEPT ![g] = threadProfiles[gid[g]]]
            /\ returned' = returned \cup {<<gid[g], threadProfiles[gid[g]]>>}
            /\ gpc' = [gpc EXCEPT ![g] = "idle"]
       ELSE /\ gpc' = [gpc EXCEPT ![g] = "generate"]
            /\ UNCHANGED <<gprofile, returned>>
    /\ UNCHANGED <<threadProfiles, allocated, gid>>

\* Line 63: newProfile := generateBrowserProfile()
GenerateProfile(g) ==
    /\ gpc[g] = "generate"
    /\ allocated < MaxProfiles
    /\ allocated' = allocated + 1
    /\ gprofile' = [gprofile EXCEPT ![g] = allocated + 1]
    /\ gpc' = [gpc EXCEPT ![g] = "store"]
    /\ UNCHANGED <<threadProfiles, gid, returned>>

\* Lines 64-65: threadProfiles.Store(threadID, newProfile); return newProfile
StoreProfile(g) ==
    /\ gpc[g] = "store"
    /\ threadProfiles' = Put(threadProfiles, gid[g], gprofile[g])
    /\ returned' = returned \cup {<<gid[g], gprofile[g]>>}
    /\ gpc' = [gpc EXCEPT ![g] = "idle"]
    /\ UNCHANGED <<allocated, gid, gprofile>>

CacheInit ==
    /\ CacheIdle
    /\ FamIdle
    /\ HdrIdle
    /\ RetryIdle
    /\ StampIdle
    /\ DoIdle
    /\ JarIdle
    /\ DialIdle
    /\ StreamIdle
    /\ WireIdle
    /\ HistIdle
    /\ RdIdle

CacheNext ==
    \E g \in Callers :
        \/ CallGetThreadProfile(g) /\ UNCHANGED <<famVars, hdrVars, retryVars, histVars, rdVars, wireVars, streamVars, dialVars, jarVars, doVars, stampVars>>
        \/ LoadProfile(g) /\ UNCHANGED <<famVars, hdrVars, retryVars, histVars, rdVars, wireVars, streamVars, dialVars, jarVars, doVars, stampVars>>
        \/ GenerateProfile(g) /\ UNCHANGED <<famVars, hdrVars, retryVars, histVars, rdVars, wireVars, streamVars, dialVars, jarVars, doVars, stampVars>>
        \/ StoreProfile(g) /\ UNCHANGED <<famVars, hdrVars, retryVars, histVars, rdVars, wireVars, streamVars, dialVars, jarVars, doVars, stampVars>>

SpecCache == CacheInit /\ [][CacheNext]_vars

-----------------------------------------------------------------------------
(* client.go: GetWithRetry.  What bc.Get returns is the transport's doing:  *)
(* an error and no response, or a response with some status.                *)

GetErrors == {"connection refused", "handshake timeout"}
Statuses == {200, 301, 404, 503}

\* The (resp, err) pairs bc.Get can return; status 0 stands for a nil resp.
GetOutcomes ==
    {[err |-> e, status |-> 0] : e \in GetErrors}
    \cup {[err |-> "", status |-> st] : st \in Statuses}

\* The largest delay, in seconds (30*time.Second).
BackoffCap == 30

\* Line 209, with a threshold that takes client errors for failures too.
succeeded_Below400(o) == o.err = "" /\ o.status < 400

\* Line 209: err == nil && resp.StatusCode < 500
succeeded(o) == o.err = "" /\ o.status < 500

\* Lines 220-223 without the cap.
nextBackoff_NoCap(b) == b * 2

\* Lines 220-223: backoff *= 2, capped
nextBackoff(b) == IF b * 2 > BackoffCap THEN BackoffCap ELSE b * 2

\* Lines 207-217: one pass of the loop up to the sleep
Attempt ==
    /\ rpc = "attempt"
    /\ \E o \in GetOutcomes :
          /\ attempts' = Append(attempts, o)
          /\ IF succeeded(o)
             THEN /\ retryResult' = [resp |-> o.status, err |-> "", cause |-> "",
                                     retries |-> 0]
                  /\ rpc' = "done"
                  /\ UNCHANGED <<lastErr, ri>>
             ELSE /\ lastErr' = o.err
                  /\ IF ri < maxRetries
                     THEN rpc' = "sleep" /\ UNCHANGED ri
                     ELSE /\ ri' = ri + 1
                          /\ rpc' = "exhausted"
                  /\ UNCHANGED retryResult
    /\ UNCHANGED <<maxRetries, backoff, sleeps>>
    /\ UNCHANGED <<famVars, hdrVars, cacheVars, histVars, rdVars, wireVars, streamVars, dialVars, jarVars, doVars, stampVars>>

\* Lines 218-224, and the loop's i++
Sleep ==
    /\ rpc = "sleep"
    /\ sleeps' = Append(sleeps, backoff)
    /\ backoff' = nextBackoff(backoff)
    /\ ri' = ri + 1
    /\ rpc' = "attempt"
    /\ UNCHANGED <<maxRetries, lastErr, attempts, retryResult>>
    /\ UNCHANGED <<famVars, hdrVars, cacheVars, histVars, rdVars, wireVars, streamVars, dialVars, jarVars, doVars, stampVars>>

\* Line 227: the loop is over
Exhausted ==
    /\ rpc = "exhausted"
    /\ retryResult' = [resp |-> 0, err |-> "failed after retries",
                       cause |-> lastErr, retries |-> maxRetries]
    /\ rpc' = "done"
    /\ UNCHANGED <<maxRetries, ri, backoff, lastErr, attempts, sleeps>>
    /\ UNCHANGED <<famVars, hdrVars, cacheVars, histVars, rdVars, wireVars, streamVars, dialVars, jarVars, doVars, stampVars>>

\* Lines 204-207: a call of GetWithRetry(url, n); a negative n skips the loop.
RetryInit ==
    /\ maxRetries \in (-1)..MaxRetries
    /\ rpc = IF maxRetries < 0 THEN "exhausted" ELSE "attempt"
    /\ ri = 0
    /\ backoff = 1
    /\ lastErr = ""
    /\ attempts = << >>
    /\ sleeps = << >>
    /\ retryResult = NoResult
    /\ FamIdle
    /\ HdrIdle
    /\ CacheIdle
    /\ StampIdle
    /\ DoIdle
    /\ JarIdle
    /\ DialIdle
    /\ StreamIdle
    /\ WireIdle
    /\ HistIdle
    /\ RdIdle

RetryNext == Attempt \/ Sleep \/ Exhausted

SpecRetry == RetryInit /\ [][RetryNext]_vars

-----------------------------------------------------------------------------
(* client.go: mergeOptions, updateHistory and the history of one session *)

\* The capacity of the history.
HistoryCap == 10

\* updateHistory that drops the newest entry past the capacity.
updateHistory_DropNewest(hist, url) ==
    IF Len(Append(hist, url)) > HistoryCap
    THEN SubSeq(Append(hist, url), 1, HistoryCap)
    ELSE Append(hist, url)

\* updateHistory, lines 297-300: append, then drop the first entry past the
\* capacity.
updateHistory(hist, url) ==
    IF Len(Append(hist, url)) > HistoryCap
    THEN Tail(Append(hist, url))
    ELSE Append(hist, url)

\* mergeOptions, lines 257-280: the defaults, overridden by options[0].
mergeDefaults(options) ==
    IF Len(options) > 0
    THEN [IsNavigate |-> options[1].IsNavigate,
          Referrer |-> options[1].Referrer,
          Origin |-> options[1].Origin]
    ELSE NoOpts

\* An automatic referrer taken from the other end of the history.
autoReferrer_Oldest(opts, n, hist) ==
    IF opts.Referrer = "" /\ n > 0
    THEN [opts EXCEPT !.Referrer = hist[1]]
    ELSE opts

\* mergeOptions, lines 283-287, with n the value read for len(bc.history)
autoReferrer(opts, n, hist) ==
    IF opts.Referrer = "" /\ n > 0
    THEN [opts EXCEPT !.Referrer = hist[Len(hist)]]
    ELSE opts

\* mergeOptions on a session no other goroutine uses
mergeOptions(options, hist) == autoReferrer(mergeDefaults(options), Len(hist), hist)

\* The URLs requested and the options the callers pass.
URLs == {"https://a.example/", "https://a.example/next"}
OptionLists ==
    {<< >>, <<[IsNavigate |-> FALSE, Referrer |-> "https://r.example/", Origin |-> ""]>>}

\* Do, lines 146-168, on a session used by one goroutine: the options are
\* merged, the HeaderBuilder is given its context, the request is sent and,
\* when it succeeds, its URL is recorded.  (The header of the request itself
\* is the header machine's subject.)
DoRequest ==
    /\ Len(requested) < MaxRequests
    /\ \E url \in URLs, options \in OptionLists, ok \in BOOLEAN :
          \E opts \in {mergeOptions(options, history)} :
             /\ hbIsNavigate' = opts.IsNavigate
             /\ hbReferrer' = opts.Referrer
             /\ hbOrigin' = opts.Origin
             /\ IF ok
                THEN /\ history' = updateHistory(history, url)
                     /\ requested' = Append(requested, url)
                ELSE UNCHANGED <<history, requested>>
    /\ UNCHANGED <<language, reqPath, reqHeader, built, redirectErr>>
    /\ UNCHANGED <<hpc, hurl, hopts, rwWriter, rwReaders, hAccess, hStarted>>
    /\ UNCHANGED <<famVars, cacheVars, retryVars, rdVars, wireVars, streamVars, dialVars, jarVars, doVars, stampVars>>

\* NewBrowserClient: an empty history; the HeaderBuilder's zero context.
HistoryInit ==
    /\ HistIdle
    /\ FamIdle
    /\ HdrIdle
    /\ CacheIdle
    /\ RetryIdle
    /\ StampIdle
    /\ DoIdle
    /\ JarIdle
    /\ DialIdle
    /\ StreamIdle
    /\ WireIdle
    /\ RdIdle

HistoryNext == DoRequest

SpecHistory == HistoryInit /\ [][HistoryNext]_vars

-----------------------------------------------------------------------------
(* The same session used by parallel goroutines: Do step by step, with the  *)
(* session's sync.RWMutex.                                                  *)

\* An access to bc.history by goroutine g at a line of client.go: whether g
\* holds bc.mu, and whether another goroutine holds its write lock.
Access(g, line) ==
    [line |-> line,
     locked |-> (rwWriter = g \/ g \in rwReaders),
     appending |-> (rwWriter \notin {0, g})]

\* What an unsynchronised read of len(bc.history) can return: the length as
\* it is, or, while another goroutine is inside updateHistory, the length
\* its write leaves or left behind.
RacyLens(g) ==
    IF rwWriter \in {0, g}
    THEN {Len(history)}
    ELSE IF hpc[rwWriter] = "append"
    THEN {Len(history), Len(updateHistory(history, hurl[rwWriter]))}
    ELSE {Len(history)} \cup {n \in {Len(history) - 1} : n >= 0}

\* Do, line 146, mergeOptions lines 257-280: a call of Do begins.
StartDo(g) ==
    /\ hpc[g] = "idle"
    /\ hStarted < MaxParallelDo
    /\ hStarted' = hStarted + 1
    /\ \E url \in URLs, options \in OptionLists :
          /\ hurl' = [hurl EXCEPT ![g] = url]
          /\ hopts' = [hopts EXCEPT ![g] = mergeDefaults(options)]
          /\ hpc' = [hpc EXCEPT ![g] =
                        IF mergeDefaults(options).Referrer = ""
                        THEN "readLen" ELSE "request"]
    /\ UNCHANGED <<history, requested, rwWriter, rwReaders, hAccess>>
    /\ UNCHANGED <<famVars, hdrVars, cacheVars, retryVars, rdVars, wireVars, streamVars, dialVars, jarVars, doVars, stampVars>>

\* mergeOptions, line 283: len(bc.history) > 0, read without the lock
ReadLen(g) ==
    /\ hpc[g] = "readLen"
    /\ hAccess' = hAccess \cup {Access(g, 283)}
    /\ \E n \in RacyLens(g) :
          hpc' = [hpc EXCEPT ![g] = IF n > 0 THEN "rlock" ELSE "request"]
    /\ UNCHANGED <<history, requested, hurl, hopts, rwWriter, rwReaders, hStarted>>
    /\ UNCHANGED <<famVars, hdrVars, cacheVars, retryVars, rdVars, wireVars, streamVars, dialVars, jarVars, doVars, stampVars>>

\* mergeOptions, line 284: bc.mu.RLock()
RLock(g) ==
    /\ hpc[g] = "rlock"
    /\ rwWriter = 0
    /\ rwReaders' = rwReaders \cup {g}
    /\ hpc' = [hpc EXCEPT ![g] = "readLast"]
    /\ UNCHANGED <<history, requested, hurl, hopts, rwWriter, hAccess, hStarted>>
    /\ UNCHANGED <<famVars, hdrVars, cacheVars, retryVars, rdVars, wireVars, streamVars, dialVars, jarVars, doVars, stampVars>>

\* mergeOptions, line 285: the last entry is read
ReadLast(g) ==
    /\ hpc[g] = "readLast"
    /\ hAccess' = hAccess \cup {Access(g, 285)}
    /\ hopts' = [hopts EXCEPT ![g] = autoReferrer(hopts[g], Len(history), history)]
    /\ hpc' = [hpc EXCEPT ![g] = "runlock"]
    /\ UNCHANGED <<history, requested, hurl, rwWriter, rwReaders, hStarted>>
    /\ UNCHANGED <<famVars, hdrVars, cacheVars, retryVars, rdVars, wireVars, streamVars, dialVars, jarVars, doVars, stampVars>>

\* mergeOptions, line 286: bc.mu.RUnlock()
RUnlock(g) ==
    /\ hpc[g] = "runlock"
    /\ rwReaders' = rwReaders \ {g}
    /\ hpc' = [hpc EXCEPT ![g] = "request"]
    /\ UNCHANGED <<history, requested, hurl, hopts, rwWriter, hAccess, hStarted>>
    /\ UNCHANGED <<famVars, hdrVars, cacheVars, retryVars, rdVars, wireVars, streamVars, dialVars, jarVars, doVars, stampVars>>

\* Do, lines 149-163: the HeaderBuilder is given the context and the request
\* is sent; Do returns when it fails.
SendRequest(g) ==
    /\ hpc[g] = "request"
    /\ hbIsNavigate' = hopts[g].IsNavigate
    /\ hbReferrer' = hopts[g].Referrer
    /\ hbOrigin' = hopts[g].Origin
    /\ \E ok \in BOOLEAN :
          hpc' = [hpc EXCEPT ![g] = IF ok THEN "lock" ELSE "idle"]
    /\ UNCHANGED <<language, reqPath, reqHeader, built, redirectErr>>
    /\ UNCHANGED <<history, requested, hurl, hopts, rwWriter, rwReaders, hAccess, hStarted>>
    /\ UNCHANGED <<famVars, cacheVars, retryVars, rdVars, wireVars, streamVars, dialVars, jarVars, doVars, stampVars>>

\* updateHistory, line 294: bc.mu.Lock()
Lock(g) ==
    /\ hpc[g] = "lock"
    /\ rwWriter = 0
    /\ rwReaders = {}
    /\ rwWriter' = g
    /\ hpc' = [hpc EXCEPT ![g] = "append"]
    /\ UNCHANGED <<history, requested, hurl, hopts, rwReaders, hAccess, hStarted>>
    /\ UNCHANGED <<famVars, hdrVars, cacheVars, retryVars, rdVars, wireVars, streamVars, dialVars, jarVars, doVars, stampVars>>

\* updateHistory, lines 297-300: the append and the eviction
AppendHistory(g) ==
    /\ hpc[g] = "append"
    /\ hAccess' = hAccess \cup {Access(g, 297)}
    /\ history' = updateHistory(history, hurl[g])
    /\ requested' = Append(requested, hurl[g])
    /\ hpc' = [hpc EXCEPT ![g] = "unlock"]
    /\ UNCHANGED <<hurl, hopts, rwWriter, rwReaders, hStarted>>
    /\ UNCHANGED <<famVars, hdrVars, cacheVars, retryVars, rdVars, wireVars, streamVars, dialVars, jarVars, doVars, stampVars>>

\* updateHistory, line 295: the deferred bc.mu.Unlock(); Do returns.
Unlock(g) ==
    /\ hpc[g] = "unlock"
    /\ rwWriter' = 0
    /\ hpc' = [hpc EXCEPT ![g] = "idle"]
    /\ UNCHANGED <<history, requested, hurl, hopts, rwReaders, hAccess, hStarted>>
    /\ UNCHANGED <<famVars, hdrVars, cacheVars, retryVars, rdVars, wireVars, streamVars, dialVars, jarVars, doVars, stampVars>>

ParallelNext ==
    \E g \in Callers :
        \/ StartDo(g)
        \/ ReadLen(g)
        \/ RLock(g)
        \/ ReadLast(g)
        \/ RUnlock(g)
        \/ SendRequest(g)
        \/ Lock(g)
        \/ AppendHistory(g)
        \/ Unlock(g)

SpecParallel == HistoryInit /\ [][ParallelNext]_vars

-----------------------------------------------------------------------------
(* One request through its redirect chain: Do, and net/http's client, which *)
(* calls CheckRedirect (client.go line 76) before it follows a redirect,    *)
(* with via holding every request sent so far.                              *)

\* The URL of the k-th request of the chain (k = 0 is the caller's).
HopURL(k) == "https://a.example/" \o SubSeq(LowerLetters, k + 1, k + 1)
HopPath(k) == "/" \o SubSeq(LowerLetters, k + 1, k + 1)

\* The user agents the chain is followed with: Chrome's and Safari's.
RedirectUserAgents == {userAgents[1], userAgents[8]}

\* Do, lines 146-160: the options are merged, the request is stamped and
\* handed to the http.Client, which sends it.
SendFirst ==
    /\ rdPc = "start"
    /\ \E d \in Draws, custom \in {{}, CustomHeaders} :
          \E opts \in {mergeOptions(<< >>, history)} :
             \E h \in {BuildHeaders(userAgent, language, opts.IsNavigate,
                                    opts.Referrer, opts.Origin, HopPath(0), d)} :
                /\ hbIsNavigate' = opts.IsNavigate
                /\ hbReferrer' = opts.Referrer
                /\ hbOrigin' = opts.Origin
                /\ reqHeader' = IF custom = {} THEN h
                                ELSE CHOOSE x \in {HeaderSet(h, kv[1], kv[2]) : kv \in custom} : TRUE
    /\ reqPath' = HopPath(0)
    /\ built' = "overlay"
    /\ viaLen' = 1
    /\ rdPc' = "sent"
    /\ UNCHANGED <<language, redirectErr, chainLen, rdErr>>
    /\ UNCHANGED <<famVars, cacheVars, retryVars, histVars, wireVars, streamVars, dialVars, jarVars, doVars, stampVars>>

\* The answer to the last request is a redirect: the http.Client makes the
\* next request, with the headers of the one before, and asks checkRedirect;
\* it sends the request, or Do returns the error (lines 161-163).
FollowRedirect ==
    /\ rdPc = "sent"
    /\ viaLen <= chainLen
    /\ \E d \in Draws :
          \E r \in {checkRedirect(viaLen, HopURL(viaLen - 1), reqHeader, reqHeader,
                                   userAgent, language, hbContext, HopPath(viaLen), d)} :
             /\ hbIsNavigate' = r.ctx.isNavigate
             /\ hbReferrer' = r.ctx.referrer
             /\ hbOrigin' = r.ctx.origin
             /\ redirectErr' = r.err
             /\ rdErr' = r.err
             /\ IF r.err = ""
                THEN /\ reqHeader' = r.header
                     /\ reqPath' = HopPath(viaLen)
                     /\ built' = "redirect"
                     /\ viaLen' = viaLen + 1
                     /\ rdPc' = "sent"
                ELSE /\ rdPc' = "done"
                     /\ UNCHANGED <<reqHeader, reqPath, built, viaLen>>
    /\ UNCHANGED <<language, chainLen>>
    /\ UNCHANGED <<famVars, cacheVars, retryVars, histVars, wireVars, streamVars, dialVars, jarVars, doVars, stampVars>>

\* The answer to the last request is no redirect: Do records the URL of the
\* caller's request and returns the response (lines 165-168).
FinalResponse ==
    /\ rdPc = "sent"
    /\ viaLen = chainLen + 1
    /\ history' = updateHistory(history, HopURL(0))
    /\ requested' = Append(requested, HopURL(0))
    /\ rdErr' = ""
    /\ rdPc' = "done"
    /\ UNCHANGED <<chainLen, viaLen>>
    /\ UNCHANGED <<hpc, hurl, hopts, rwWriter, rwReaders, hAccess, hStarted>>
    /\ UNCHANGED <<famVars, hdrVars, cacheVars, retryVars, wireVars, streamVars, dialVars, jarVars, doVars, stampVars>>

\* A client with some profile; the servers' chain is of any length.
RedirectInit ==
    /\ userAgent \in RedirectUserAgents
    /\ language \in Languages
    /\ chainLen \in 0..MaxChain
    /\ viaLen = 0
    /\ rdPc = "start"
    /\ rdErr = ""
    /\ hbIsNavigate = TRUE
    /\ hbReferrer = ""
    /\ hbOrigin = ""
    /\ reqPath = ""
    /\ reqHeader = EmptyMap
    /\ built = ""
    /\ redirectErr = ""
    /\ randomizeTLS = FALSE
    /\ fingerprint = ""
    /\ browser = ""
    /\ fpBrowser = ""
    /\ CacheIdle
    /\ RetryIdle
    /\ StampIdle
    /\ DoIdle
    /\ JarIdle
    /\ DialIdle
    /\ StreamIdle
    /\ WireIdle
    /\ HistIdle

RedirectNext == SendFirst \/ FollowRedirect \/ FinalResponse

SpecRedirect == RedirectInit /\ [][RedirectNext]_vars

-----------------------------------------------------------------------------
(* stream.go: StreamResponse.  The body is the stream the response reader   *)
(* delivers (decompressed when getResponseReader wraps it): a source that   *)
(* gives its bytes in reads of any size and then ends, with io.EOF or with  *)
(* another error.  bufio.Reader.ReadString returns the buffered bytes up to *)
(* the first newline, or, when the source has ended, the rest and the error.*)
(* A buffer holds at least 16 bytes, more than any body of the model, so    *)
(* ReadString never has to empty a full buffer.                             *)

NL == "\n"
BodyChars == {"a", "b", NL}

\* Every string of at most n body characters.
RECURSIVE StringsUpTo(_)
StringsUpTo(n) ==
    IF n = 0 THEN {""}
    ELSE StringsUpTo(n - 1)
         \cup {s \o c : s \in {x \in StringsUpTo(n - 1) : Len(x) = n - 1}, c \in BodyChars}

\* Lines 13-15 and bufio.NewReaderSize (line 23), which takes no less than 16
bufferSize(size) == IF size <= 0 THEN 8192 ELSE IF size < 16 THEN 16 ELSE size

\* Lines 52-56
streamResult ==
    [err |-> "", BytesRead |-> sBytesRead, Content |-> sContent, FoundContent |-> sFound]

\* Lines 19 and 48: return nil, err
streamFailure(e) == [NoStreamResult EXCEPT !.err = e]

\* ReadString that leaves the newline out of the line it returns.
lineOf_WithoutNewline(buf, i) == IF i # 0 THEN SubSeq(buf, 1, i - 1) ELSE buf

\* Line 34, ReadString('\n'): the buffered bytes up to and with the newline
\* at i, or all of them when there is none (i = 0)
lineOf(buf, i) == IF i # 0 THEN SubSeq(buf, 1, i) ELSE buf

\* Lines 13-27: the reader is made; getResponseReader can fail on the
\* header of a compressed body.
OpenReader ==
    /\ sPc = "open"
    /\ \E opened \in BOOLEAN :
          IF opened
          THEN sPc' = "check" /\ UNCHANGED sResult
          ELSE sPc' = "done" /\ sResult' = streamFailure("gzip: invalid header")
    /\ UNCHANGED <<sStop, sMaxBytes, sBufSize, sBody, sSource, sEnd, sBuf, sPending,
                   sBytesRead, sContent, sFound, sErr>>
    /\ UNCHANGED <<famVars, hdrVars, cacheVars, retryVars, histVars, rdVars, wireVars, dialVars, jarVars, doVars, stampVars>>

\* Lines 30-32: the byte ceiling, tested before each ReadString
CheckCeiling ==
    /\ sPc = "check"
    /\ IF sMaxBytes > 0 /\ sBytesRead >= sMaxBytes
       THEN sPc' = "done" /\ sResult' = streamResult
       ELSE sPc' = "read" /\ UNCHANGED sResult
    /\ UNCHANGED <<sStop, sMaxBytes, sBufSize, sBody, sSource, sEnd, sBuf, sPending,
                   sBytesRead, sContent, sFound, sErr>>
    /\ UNCHANGED <<famVars, hdrVars, cacheVars, retryVars, histVars, rdVars, wireVars, dialVars, jarVars, doVars, stampVars>>

\* byteCountingReader.Read, lines 80-84, called by ReadString to fill its
\* buffer: the source gives some of its bytes, as many as it likes and the
\* buffer has room for, or its end; it can give its end with its last bytes.
Fill ==
    /\ sPc = "read"
    /\ Index(sBuf, NL) = 0
    /\ sPending = ""
    /\ \E n \in 0..Len(sSource), ended \in BOOLEAN :
          /\ n <= bufferSize(sBufSize) - Len(sBuf)
          /\ n = 0 => (sSource = "" /\ ended)
          /\ ended => n = Len(sSource)
          /\ sBuf' = sBuf \o SubSeq(sSource, 1, n)
          /\ sSource' = SubSeq(sSource, n + 1, Len(sSource))
          /\ sBytesRead' = sBytesRead + n
          /\ sPending' = IF ended THEN sEnd ELSE ""
    /\ UNCHANGED <<sPc, sStop, sMaxBytes, sBufSize, sBody, sEnd, sContent, sFound, sErr,
                   sResult>>
    /\ UNCHANGED <<famVars, hdrVars, cacheVars, retryVars, histVars, rdVars, wireVars, dialVars, jarVars, doVars, stampVars>>

\* Lines 34-49: ReadString returns a line, or what is left and the error
\* the source ended with, and the rest of the loop's body runs.
TakeLine ==
    /\ sPc = "read"
    /\ Index(sBuf, NL) # 0 \/ sPending # ""
    /\ \E i \in {Index(sBuf, NL)} :
          \E line \in {lineOf(sBuf, i)},
             err \in {IF i # 0 THEN "" ELSE sPending} :
             /\ sErr' = err
             /\ sBuf' = IF i # 0 THEN SubSeq(sBuf, i + 1, Len(sBuf)) ELSE ""
             /\ sPending' = IF i # 0 THEN sPending ELSE ""
             /\ sContent' = sContent \o line
             /\ IF line # "" /\ sStop # "" /\ Contains(line, sStop)
                THEN /\ sFound' = TRUE
                     /\ sPc' = "done"
                     /\ sResult' = [streamResult EXCEPT !.Content = sContent \o line,
                                                        !.FoundContent = TRUE]
                ELSE /\ UNCHANGED sFound
                     /\ IF err = ""
                        THEN sPc' = "check" /\ UNCHANGED sResult
                        ELSE /\ sPc' = "done"
                             /\ sResult' =
                                   IF err = "EOF"
                                   THEN [streamResult EXCEPT !.Content = sContent \o line]
                                   ELSE streamFailure(err)
    /\ UNCHANGED <<sStop, sMaxBytes, sBufSize, sBody, sSource, sEnd, sBytesRead>>
    /\ UNCHANGED <<famVars, hdrVars, cacheVars, retryVars, histVars, rdVars, wireVars, dialVars, jarVars, doVars, stampVars>>

\* A call of StreamResponse(resp, config): no stop-substring, one within a
\* line or one across a line boundary; no byte ceiling or one of 2 bytes; the
\* default buffer size or a small one; a source that ends well or badly.
StreamInit ==
    /\ sPc = "open"
    /\ sStop \in {"", "b", "a" \o NL \o "b"}
    /\ sMaxBytes \in {0, 2}
    /\ sBufSize \in {0, 4}
    /\ sBody \in StringsUpTo(MaxBody)
    /\ sSource = sBody
    /\ sEnd \in {"EOF", "unexpected EOF"}
    /\ sBuf = ""
    /\ sPending = ""
    /\ sBytesRead = 0
    /\ sContent = ""
    /\ sFound = FALSE
    /\ sErr = ""
    /\ sResult = NoStreamResult
    /\ FamIdle
    /\ HdrIdle
    /\ CacheIdle
    /\ RetryIdle
    /\ StampIdle
    /\ DoIdle
    /\ JarIdle
    /\ DialIdle
    /\ WireIdle
    /\ HistIdle
    /\ RdIdle

StreamNext == OpenReader \/ CheckCeiling \/ Fill \/ TakeLine

SpecStream == StreamInit /\ [][StreamNext]_vars

-----------------------------------------------------------------------------
(* fingerprint.go: dialTLS.  The handshake runs in its own goroutine and    *)
(* sends its error to errChan; dialTLS selects between errChan and the done *)
(* channel of a context with a 15s deadline, which the parent can cancel.   *)

\* Lines 39-81: the connection is dialled, the template chosen, and the
\* handshake goroutine started; a failed dial is returned at line 45.
DialAndStart ==
    /\ dPc = "dial"
    /\ \E sel \in selectFingerprint(userAgent, randomizeTLS), dialled \in BOOLEAN :
          IF dialled
          THEN /\ fpBrowser' = sel[1]
               /\ fingerprint' = sel[2]
               /\ connOpen' = TRUE
               /\ handshake' = "running"
               /\ dPc' = "select"
               /\ UNCHANGED dResult
          ELSE /\ dPc' = "done"
               /\ dResult' = [conn |-> FALSE, err |-> "failed to dial",
                              cause |-> "connection refused"]
               /\ UNCHANGED <<fpBrowser, fingerprint, connOpen, handshake>>
    /\ UNCHANGED <<userAgent, randomizeTLS, browser, errChan, ctxErr, dFirst>>
    /\ UNCHANGED <<hdrVars, cacheVars, retryVars, histVars, rdVars, wireVars, streamVars, jarVars, doVars, stampVars>>

\* Lines 79-81: HandshakeContext returns and its error is sent to errChan,
\* which has room for it.  Once the context is done the handshake is
\* interrupted and returns the context's error.
HandshakeReturns ==
    /\ handshake = "running"
    /\ \E e \in IF ctxErr = "" THEN {"", "bad certificate"} ELSE {ctxErr} :
          /\ errChan' = Append(errChan, e)
          /\ dFirst' = IF dFirst # "" THEN dFirst
                       ELSE IF e = "" THEN "handshake" ELSE "handshake error"
    /\ handshake' = "returned"
    /\ UNCHANGED <<dPc, ctxErr, connOpen, dResult>>
    /\ UNCHANGED <<famVars, hdrVars, cacheVars, retryVars, histVars, rdVars, wireVars, streamVars, jarVars, doVars, stampVars>>

\* Line 75: the deadline of handshakeCtx passes, or the parent is cancelled.
ContextEnds ==
    /\ dPc = "select"
    /\ ctxErr = ""
    /\ ctxErr' \in {"context deadline exceeded", "context canceled"}
    /\ dFirst' = IF dFirst = "" THEN "context" ELSE dFirst
    /\ UNCHANGED <<dPc, handshake, errChan, connOpen, dResult>>
    /\ UNCHANGED <<famVars, hdrVars, cacheVars, retryVars, histVars, rdVars, wireVars, streamVars, jarVars, doVars, stampVars>>

\* Lines 84-89: the select takes the case of errChan, which is ready.
SelectErrChan ==
    /\ dPc = "select"
    /\ errChan # << >>
    /\ errChan' = Tail(errChan)
    /\ IF Head(errChan) # ""
       THEN /\ connOpen' = FALSE
            /\ dResult' = [conn |-> FALSE, err |-> "TLS handshake failed",
                           cause |-> Head(errChan)]
       ELSE /\ dResult' = [conn |-> TRUE, err |-> "", cause |-> ""]
            /\ UNCHANGED connOpen
    /\ dPc' = "done"
    /\ UNCHANGED <<handshake, ctxErr, dFirst>>
    /\ UNCHANGED <<famVars, hdrVars, cacheVars, retryVars, histVars, rdVars, wireVars, streamVars, jarVars, doVars, stampVars>>

\* Lines 90-92: the select takes the case of handshakeCtx.Done(), which is
\* ready.  (When both cases are ready the select takes either.)
SelectDone ==
    /\ dPc = "select"
    /\ ctxErr # ""
    /\ connOpen' = FALSE
    /\ dResult' = [conn |-> FALSE, err |-> "TLS handshake timeout", cause |-> ctxErr]
    /\ dPc' = "done"
    /\ UNCHANGED <<handshake, errChan, ctxErr, dFirst>>
    /\ UNCHANGED <<famVars, hdrVars, cacheVars, retryVars, histVars, rdVars, wireVars, streamVars, jarVars, doVars, stampVars>>

\* A call of dialTLS for a client with some profile
DialInit ==
    /\ userAgent \in {userAgents[i] : i \in DOMAIN userAgents} \cup FragmentUAs(1)
    /\ randomizeTLS \in BOOLEAN
    /\ fingerprint = ""
    /\ browser = ""
    /\ fpBrowser = ""
    /\ dPc = "dial"
    /\ handshake = ""
    /\ errChan = << >>
    /\ ctxErr = ""
    /\ connOpen = FALSE
    /\ dFirst = ""
    /\ dResult = NoDial
    /\ HdrIdle
    /\ CacheIdle
    /\ RetryIdle
    /\ StampIdle
    /\ DoIdle
    /\ JarIdle
    /\ StreamIdle
    /\ WireIdle
    /\ HistIdle
    /\ RdIdle

DialNext == DialAndStart \/ HandshakeReturns \/ ContextEnds \/ SelectErrChan \/ SelectDone

SpecDial == DialInit /\ [][DialNext]_vars

-----------------------------------------------------------------------------
(* client.go: the session's cookie jar.  NewBrowserClient gives bc.cookieJar *)
(* and bc.Client.Jar the same jar; ClearCookies makes a new one and assigns  *)
(* it to the two fields, one after the other, with no lock.                  *)

\* ClearCookies, lines 324-326: cookiejar.New
MakeJar(g) ==
    /\ cpc[g] = "idle"
    /\ jarsMade < MaxJars
    /\ jarsMade' = jarsMade + 1
    /\ jarCookies' = Put(jarCookies, jarsMade + 1, {})
    /\ cjar' = [cjar EXCEPT ![g] = jarsMade + 1]
    /\ cpc' = [cpc EXCEPT ![g] = "made"]
    /\ UNCHANGED <<cookieJar, clientJar, jarSeen>>
    /\ UNCHANGED <<famVars, hdrVars, cacheVars, retryVars, histVars, rdVars, wireVars, streamVars, dialVars, doVars, stampVars>>

\* ClearCookies, line 327: bc.cookieJar = jar
AssignCookieJar(g) ==
    /\ cpc[g] = "made"
    /\ cookieJar' = cjar[g]
    /\ cpc' = [cpc EXCEPT ![g] = "first"]
    /\ UNCHANGED <<clientJar, jarsMade, cjar, jarCookies, jarSeen>>
    /\ UNCHANGED <<famVars, hdrVars, cacheVars, retryVars, histVars, rdVars, wireVars, streamVars, dialVars, doVars, stampVars>>

\* ClearCookies, line 328: bc.Client.Jar = jar
AssignClientJar(g) ==
    /\ cpc[g] = "first"
    /\ clientJar' = cjar[g]
    /\ cpc' = [cpc EXCEPT ![g] = "idle"]
    /\ UNCHANGED <<cookieJar, jarsMade, cjar, jarCookies, jarSeen>>
    /\ UNCHANGED <<famVars, hdrVars, cacheVars, retryVars, histVars, rdVars, wireVars, streamVars, dialVars, doVars, stampVars>>

\* SetCookie, lines 313-320 (GetCookies, lines 304-310, reads the same
\* field): the cookie goes to the jar bc.cookieJar points to.
SetCookie ==
    /\ jarCookies' = [jarCookies EXCEPT ![cookieJar] = @ \cup {"sid"}]
    /\ jarSeen' = jarSeen \cup {<<cookieJar, clientJar>>}
    /\ UNCHANGED <<cookieJar, clientJar, jarsMade, cpc, cjar>>
    /\ UNCHANGED <<famVars, hdrVars, cacheVars, retryVars, histVars, rdVars, wireVars, streamVars, dialVars, doVars, stampVars>>

\* Do, line 160: the http.Client sends a request with the cookies of the
\* jar bc.Client.Jar points to, and stores there the cookie of the response.
SendCookies ==
    /\ jarCookies' = [jarCookies EXCEPT ![clientJar] = @ \cup {"srv"}]
    /\ jarSeen' = jarSeen \cup {<<cookieJar, clientJar>>}
    /\ UNCHANGED <<cookieJar, clientJar, jarsMade, cpc, cjar>>
    /\ UNCHANGED <<famVars, hdrVars, cacheVars, retryVars, histVars, rdVars, wireVars, streamVars, dialVars, doVars, stampVars>>

\* NewBrowserClient, lines 54-72: one jar, and both fields point to it.
JarInit ==
    /\ cookieJar = 1
    /\ clientJar = 1
    /\ jarsMade = 1
    /\ cpc = [g \in Callers |-> "idle"]
    /\ cjar = [g \in Callers |-> 0]
    /\ jarCookies = Put(EmptyMap, 1, {})
    /\ jarSeen = {}
    /\ FamIdle
    /\ HdrIdle
    /\ CacheIdle
    /\ RetryIdle
    /\ StampIdle
    /\ DoIdle
    /\ DialIdle
    /\ StreamIdle
    /\ WireIdle
    /\ HistIdle
    /\ RdIdle

JarNext ==
    \/ \E g \in Callers : MakeJar(g)
    \/ \E g \in Callers : AssignCookieJar(g)
    \/ \E g \in Callers : AssignClientJar(g)
    \/ SetCookie
    \/ SendCookies

SpecJar == JarInit /\ [][JarNext]_vars

-----------------------------------------------------------------------------
(* client.go: Do from its first line to its last, on a session used by one  *)
(* goroutine.  What bc.Client.Do returns is the transport's doing: a        *)
(* response, or an error and no response.  (The redirects it may follow on  *)
(* the way are the subject of the redirect machine.)                        *)

\* Do that records the URL whatever the transport returned.
historyAfter_Always(hist, url, err) == updateHistory(hist, url)

\* Do, lines 160-166: the history after bc.Client.Do returned err
historyAfter(hist, url, err) == IF err # "" THEN hist ELSE updateHistory(hist, url)

\* Post, lines 133-139: req.Header of the request Post hands to Do
PostRequest(contentType, body) ==
    HeaderSet(HeaderSet(EmptyMap, "Content-Type", contentType),
              "Content-Length", ToString(Len(body)))

\* Do, lines 145-169, called by Get or by the caller with a request that
\* carries no header, or by Post
Do ==
    /\ Len(requested) < MaxDo
    /\ \E options \in OptionLists, d \in Draws :
          \E opts \in {mergeOptions(options, history)} :
             /\ doOptions' = options
             /\ hbIsNavigate' = opts.IsNavigate
             /\ hbReferrer' = opts.Referrer
             /\ hbOrigin' = opts.Origin
             /\ reqHeader' = BuildHeaders(userAgent, language, opts.IsNavigate,
                                          opts.Referrer, opts.Origin, "/", d)
    /\ \E url \in URLs, err \in {"", "connection refused"},
          header \in {EmptyMap, PostRequest("application/json", "{}")} :
          /\ doURL' = url
          /\ doHeader' = header
          /\ doErr' = err
          /\ history' = historyAfter(history, url, err)
          /\ requested' = IF err # "" THEN requested ELSE Append(requested, url)
    /\ reqPath' = "/"
    /\ built' = "build"
    /\ UNCHANGED <<language, redirectErr>>
    /\ UNCHANGED <<hpc, hurl, hopts, rwWriter, rwReaders, hAccess, hStarted>>
    /\ UNCHANGED <<famVars, cacheVars, retryVars, rdVars, wireVars, streamVars, dialVars, jarVars, stampVars>>

\* NewBrowserClient: an empty history, a Chrome profile
DoInit ==
    /\ userAgent = userAgents[1]
    /\ language \in Languages
    /\ hbIsNavigate = TRUE
    /\ hbReferrer = ""
    /\ hbOrigin = ""
    /\ reqPath = ""
    /\ reqHeader = EmptyMap
    /\ built = ""
    /\ redirectErr = ""
    /\ randomizeTLS = FALSE
    /\ fingerprint = ""
    /\ browser = ""
    /\ fpBrowser = ""
    /\ DoIdle
    /\ CacheIdle
    /\ RetryIdle
    /\ StampIdle
    /\ JarIdle
    /\ DialIdle
    /\ StreamIdle
    /\ WireIdle
    /\ HistIdle
    /\ RdIdle

SpecDo == DoInit /\ [][Do]_vars

-----------------------------------------------------------------------------
(* client.go: Do, StreamGet and checkRedirect, run by several goroutines on  *)
(* one session.  Each calls bc.headerBuilder.SetContext and then             *)
(* bc.headerBuilder.BuildHeaders(req) on the session's only HeaderBuilder,   *)
(* under no lock: SetContext is three writes of fields that the other        *)
(* goroutine's BuildHeaders reads.  BuildHeaders is taken to read the three  *)
(* fields at once.                                                           *)

\* SetContext, line 451
WriteIsNavigate(g) ==
    /\ tpc[g] = "start"
    /\ hbIsNavigate' = tctx[g].isNavigate
    /\ tpc' = [tpc EXCEPT ![g] = "isNavigate"]
    /\ UNCHANGED <<language, hbReferrer, hbOrigin, reqPath, reqHeader, built, redirectErr>>
    /\ UNCHANGED <<tctx, theader>>
    /\ UNCHANGED <<famVars, cacheVars, retryVars, histVars, rdVars, wireVars, streamVars, dialVars, jarVars, doVars>>

\* SetContext, line 452
WriteReferrer(g) ==
    /\ tpc[g] = "isNavigate"
    /\ hbReferrer' = tctx[g].referrer
    /\ tpc' = [tpc EXCEPT ![g] = "referrer"]
    /\ UNCHANGED <<language, hbIsNavigate, hbOrigin, reqPath, reqHeader, built, redirectErr>>
    /\ UNCHANGED <<tctx, theader>>
    /\ UNCHANGED <<famVars, cacheVars, retryVars, histVars, rdVars, wireVars, streamVars, dialVars, jarVars, doVars>>

\* SetContext, line 453
WriteOrigin(g) ==
    /\ tpc[g] = "referrer"
    /\ hbOrigin' = tctx[g].origin
    /\ tpc' = [tpc EXCEPT ![g] = "context"]
    /\ UNCHANGED <<language, hbIsNavigate, hbReferrer, reqPath, reqHeader, built, redirectErr>>
    /\ UNCHANGED <<tctx, theader>>
    /\ UNCHANGED <<famVars, cacheVars, retryVars, histVars, rdVars, wireVars, streamVars, dialVars, jarVars, doVars>>

\* Do, line 152 (StreamGet, line 181; checkRedirect, line 242):
\* BuildHeaders(req) on the goroutine's own request
BuildHeadersBy(g) ==
    /\ tpc[g] = "context"
    /\ \E d \in Draws :
          theader' = [theader EXCEPT ![g] =
                         BuildHeaders(userAgent, language, hbIsNavigate,
                                      hbReferrer, hbOrigin, "/", d)]
    /\ tpc' = [tpc EXCEPT ![g] = "built"]
    /\ UNCHANGED hdrVars
    /\ UNCHANGED tctx
    /\ UNCHANGED <<famVars, cacheVars, retryVars, histVars, rdVars, wireVars, streamVars, dialVars, jarVars, doVars>>

\* Each goroutine has a request of its own to stamp: a fetch with a referrer
\* and an origin, a navigation without either, or a redirect hop.
StampInit ==
    /\ userAgent = userAgents[1]
    /\ language \in Languages
    /\ hbIsNavigate = TRUE
    /\ hbReferrer = ""
    /\ hbOrigin = ""
    /\ reqPath = ""
    /\ reqHeader = EmptyMap
    /\ built = ""
    /\ redirectErr = ""
    /\ randomizeTLS = FALSE
    /\ fingerprint = ""
    /\ browser = ""
    /\ fpBrowser = ""
    /\ tpc = [g \in Callers |-> "start"]
    /\ tctx \in [Callers ->
                   {[isNavigate |-> FALSE, referrer |-> "https://r.example/",
                     origin |-> "https://a.example"],
                    [isNavigate |-> TRUE, referrer |-> "", origin |-> ""],
                    [isNavigate |-> TRUE, referrer |-> HopURL(0), origin |-> ""]}]
    /\ theader = [g \in Callers |-> EmptyMap]
    /\ CacheIdle
    /\ RetryIdle
    /\ DoIdle
    /\ JarIdle
    /\ DialIdle
    /\ StreamIdle
    /\ WireIdle
    /\ HistIdle
    /\ RdIdle

StampNext ==
    \/ \E g \in Callers : WriteIsNavigate(g)
    \/ \E g \in Callers : WriteReferrer(g)
    \/ \E g \in Callers : WriteOrigin(g)
    \/ \E g \in Callers : BuildHeadersBy(g)

SpecStamp == StampInit /\ [][StampNext]_vars

-----------------------------------------------------------------------------
(* Claims about family resolution and template selection (SpecFamily) *)

\* C1: with randomize=false, the TLS template selectFingerprint chose for a
\* connection belongs to the family detectBrowser resolved for the same user
\* agent when the headers were built.
C1_TemplateInHeaderFamily ==
    (fingerprint # "" /\ browser # "" /\ ~randomizeTLS)
        => fingerprint \in browserFingerprints[browser]

\* C9 as stated: every user agent resolves to one of the four families;
\* Safari only if "Safari" is present and "Chrome" absent; Edge if "Edg/" is
\* present; Chrome when no family name is present.
C9_EdgeWheneverEdgPresent ==
    browser # "" =>
        /\ browser \in Families
        /\ (browser = "Safari" =>
               Contains(userAgent, "Safari") /\ ~Contains(userAgent, "Chrome"))
        /\ (Contains(userAgent, "Edg/") => browser = "Edge")
        /\ ((\A n \in {"Firefox", "Safari", "Edg/"} : ~Contains(userAgent, n))
               => browser = "Chrome")

\* C9 amended: every user agent resolves to exactly one of the four families;
\* Firefox iff "Firefox" is present; otherwise Safari iff "Safari" is present
\* and "Chrome" absent; otherwise Edge iff "Edg/" is present; otherwise
\* Chrome (so "Edg/" yields Edge only when neither earlier rule applies).
C9_FamilyResolution ==
    browser # "" =>
        LET ff == Contains(userAgent, "Firefox")
            sf == Contains(userAgent, "Safari") /\ ~Contains(userAgent, "Chrome")
            ed == Contains(userAgent, "Edg/")
        IN /\ browser \in Families
           /\ (browser = "Firefox") = ff
           /\ (browser = "Safari") = (~ff /\ sf)
           /\ (browser = "Edge") = (~ff /\ ~sf /\ ed)
           /\ (browser = "Chrome") = (~ff /\ ~sf /\ ~ed)

\* An Edge user agent as real Edge sends it ("Chrome", "Safari" and "Edg/")
\* has been resolved, and to Edge.
C9_Witness ==
    /\ browser = "Edge"
    /\ Contains(userAgent, "Chrome")
    /\ Contains(userAgent, "Edg/")

-----------------------------------------------------------------------------
(* Claims about the header engine (SpecHeaders) *)

SecFetchKeys == {k \in DOMAIN reqHeader : HasPrefix(k, "Sec-Fetch-")}

\* C10: for a Safari-family profile the header set BuildHeaders produced holds
\* no Sec-Fetch-* key, in every context and for every outcome of the draws,
\* also when the build was made by the redirect check.
C10_SafariNoSecFetch ==
    (built \in {"build", "redirect"} /\ detectBrowser(userAgent) = "Safari")
        => SecFetchKeys = {}

\* A Safari profile's request was rebuilt on a redirect hop, as a navigation
\* with a referrer.
C10_Witness ==
    /\ built = "redirect"
    /\ detectBrowser(userAgent) = "Safari"
    /\ "Referer" \in DOMAIN reqHeader
    /\ "Upgrade-Insecure-Requests" \in DOMAIN reqHeader

-----------------------------------------------------------------------------
(* Claims about the profile cache (SpecCache) *)

\* C2: all calls of GetThreadProfile with the same identifier, concurrent or
\* later, return the same profile instance, and the cache never holds another
\* one for that identifier.
C2_OneProfilePerThread ==
    /\ \A p, q \in returned : p[1] = q[1] => p[2] = q[2]
    /\ \A p \in returned :
          p[1] \in DOMAIN threadProfiles /\ threadProfiles[p[1]] = p[2]

-----------------------------------------------------------------------------
(* Claims about GetWithRetry (SpecRetry) *)

Failed(o) == o.err # "" \/ o.status >= 500

Min(a, b) == IF a < b THEN a ELSE b

RECURSIVE Pow2(_)
Pow2(n) == IF n = 0 THEN 1 ELSE 2 * Pow2(n - 1)

RECURSIVE Sum(_)
Sum(q) == IF q = << >> THEN 0 ELSE Head(q) + Sum(Tail(q))

\* C4: GetWithRetry(url, N) makes at most N+1 attempts; every attempt but the
\* last made so far failed (an error or a status >= 500); it returns the
\* response of the first attempt that came back without error and with a
\* status < 500 (3xx and 4xx too), and makes no attempt after it.
C4_RetryUntilBelow500 ==
    /\ Len(attempts) <= maxRetries + 1
    /\ \A k \in 1..(Len(attempts) - 1) : Failed(attempts[k])
    /\ (attempts # << >> /\ ~Failed(attempts[Len(attempts)]))
          => /\ rpc = "done"
             /\ retryResult.err = ""
             /\ retryResult.resp = attempts[Len(attempts)].status
    /\ (rpc = "done" /\ retryResult.err = "")
          => attempts # << >> /\ ~Failed(attempts[Len(attempts)])

\* A 404 was returned after two failed attempts.
C4_Witness ==
    /\ rpc = "done"
    /\ Len(attempts) = 3
    /\ attempts[1].err # ""
    /\ attempts[2].status = 503
    /\ retryResult.resp = 404

\* C5: the delay slept before retry k is min(2^(k-1), 30) seconds; no delay
\* is slept after the last attempt; with maxRetries=3 and outcomes 503, 503,
\* 503, 200 the 200 is returned after 3 retries and 1+2+4 = 7 seconds.
C5_BackoffSchedule ==
    /\ \A k \in 1..Len(sleeps) : sleeps[k] = Min(Pow2(k - 1), 30)
    /\ rpc = "sleep" => Len(sleeps) = Len(attempts) - 1
    /\ rpc \in {"attempt", "idle"} => Len(sleeps) = Len(attempts)
    /\ (rpc \in {"done", "exhausted"} /\ attempts # << >>)
          => Len(sleeps) = Len(attempts) - 1
    /\ (rpc = "done" /\ maxRetries = 3
        /\ [k \in DOMAIN attempts |-> attempts[k].status] = <<503, 503, 503, 200>>)
          => /\ retryResult.resp = 200
             /\ retryResult.err = ""
             /\ sleeps = <<1, 2, 4>>
             /\ Sum(sleeps) = 7

\* The capped delay has been slept: the sixth retry waited 30 seconds.
C5_Witness ==
    /\ Len(sleeps) = 6
    /\ sleeps[6] = 30
    /\ sleeps[5] = 16

\* C6: when every attempt failed, GetWithRetry returns no response and an
\* error that wraps the last request-level error that occurred; if any
\* attempt failed with an error, the cause is not nil.
C6_LastErrorKept ==
    (rpc = "done" /\ retryResult.err # ""
     /\ \E k \in DOMAIN attempts : attempts[k].err # "")
        => LET last == CHOOSE k \in DOMAIN attempts :
                           /\ attempts[k].err # ""
                           /\ \A j \in DOMAIN attempts : attempts[j].err # "" => j <= k
           IN /\ retryResult.resp = 0
              /\ retryResult.retries = maxRetries
              /\ retryResult.cause = attempts[last].err

-----------------------------------------------------------------------------
(* Claims about the navigation history (SpecHistory, SpecParallel) *)

\* The last n entries of a sequence.
LastN(q, n) == SubSeq(q, Len(q) - n + 1, Len(q))

\* C7: after any sequence of successful requests the history holds at most
\* 10 URLs, exactly the most recent min(n, 10) request URLs in request order;
\* after 15 requests it holds requests 6..15.
C7_HistoryIsLastTen ==
    /\ Len(history) <= 10
    /\ history = LastN(requested, Min(Len(requested), 10))
    /\ Len(requested) = 15 => history = SubSeq(requested, 6, 15)

\* Fifteen requests were made, the first five to one URL and the rest to
\* the other but the last: the history shows which ones were evicted.
C7_Witness ==
    /\ Len(requested) = 15
    /\ \A k \in 1..5 : requested[k] = "https://a.example/"
    /\ \A k \in 6..14 : requested[k] = "https://a.example/next"
    /\ requested[15] = "https://a.example/"
    /\ Len(history) = 10
    /\ history[1] = "https://a.example/next"
    /\ history[10] = "https://a.example/"

\* C8: every append to the history and every read of it (its length and its
\* last entry, in mergeOptions) is made holding the session mutex, and none
\* is made while another request's append is in progress.
C8_HistoryGuarded ==
    \A a \in hAccess : a.locked /\ ~a.appending

-----------------------------------------------------------------------------
(* Claims about the redirect check (SpecRedirect) *)

\* C3: a request whose chain has at most 10 redirect hops completes, every
\* hop accepted; a chain of 11 hops is rejected with the hop-limit error,
\* after its first 10 hops were followed.
C3_TenHopsAllowed ==
    rdPc = "done" =>
        IF chainLen <= 10
        THEN rdErr = "" /\ viaLen = chainLen + 1
        ELSE rdErr = "stopped after 10 redirects" /\ viaLen = 11

\* C19: a successful Do appends one entry to the history, and after one or
\* more redirects that entry is the URL of the last hop, the one whose
\* response is returned, not the URL the caller asked for.
C19_HistoryHoldsLastHop ==
    (rdPc = "done" /\ rdErr = "") => history = <<HopURL(chainLen)>>

\* C21: on every redirect hop the headers are rebuilt as a navigation whose
\* referrer is the previous hop's URL, and Authorization and
\* X-Requested-With are carried over from the previous request when not
\* empty: hop i carries Referer = URL of hop i-1 and the Authorization of
\* the original request reaches every hop.
C21_HopsCarryRefererAndAuthorization ==
    [][(rdPc = "sent" /\ viaLen' = viaLen + 1)
          => /\ hbIsNavigate' /\ hbReferrer' = HopURL(viaLen - 1) /\ hbOrigin' = ""
             /\ HeaderGet(reqHeader', "Referer") = HopURL(viaLen - 1)
             /\ HeaderGet(reqHeader', "Accept") = getNavigationAccept(detectBrowser(userAgent))
             /\ "Origin" \notin DOMAIN reqHeader'
             /\ \A i \in DOMAIN PreservedHeaders :
                   HeaderGet(reqHeader', PreservedHeaders[i])
                      = HeaderGet(reqHeader, PreservedHeaders[i])]_vars

\* The third hop of a request sent with an Authorization header carries it,
\* with the second hop's URL as its Referer.
C21_Witness ==
    /\ built = "redirect"
    /\ viaLen = 4
    /\ HeaderGet(reqHeader, "Authorization") = "Bearer t"
    /\ HeaderGet(reqHeader, "Referer") = HopURL(2)

-----------------------------------------------------------------------------
(* Claims about the order of the headers (SpecWire) *)

\* The place of a key in Chrome's order table; the keys that are not in the
\* table come after all that are.
ChromeRank(k) ==
    IF \E i \in DOMAIN headerOrder["Chrome"] : headerOrder["Chrome"][i] = k
    THEN CHOOSE i \in DOMAIN headerOrder["Chrome"] : headerOrder["Chrome"][i] = k
    ELSE Len(headerOrder["Chrome"]) + 1

\* C11: for family Chrome the request carries the generated headers of the
\* Chrome order table first, in the table's order, then the generated headers
\* that are not in the table: of two headers met one before the other, the
\* first is not later in that order than the second.
C11_ChromeTableOrder ==
    (carried # << >> /\ detectBrowser(userAgent) = "Chrome")
        => ChromeRank(carried[1]) <= ChromeRank(carried[2])

-----------------------------------------------------------------------------
(* Claims about StreamResponse (SpecStream) *)

\* The places where a line of the body ends: each newline, and the last byte.
LineEnds(body) ==
    {i \in 1..Len(body) : SubSeq(body, i, i) = NL \/ i = Len(body)}

\* The line of the body that ends at e.
LineAt(body, e) ==
    SubSeq(body, CHOOSE b \in 1..e :
                     /\ \A i \in b..(e - 1) : SubSeq(body, i, i) # NL
                     /\ b = 1 \/ SubSeq(body, b - 1, b - 1) = NL, e)

\* The ends of the lines of the body that contain the stop-substring.
StopLineEnds == {e \in LineEnds(sBody) : Contains(LineAt(sBody, e), sStop)}

StreamOpened == sResult.err # "gzip: invalid header"

\* C12: with a non-empty stop-substring that first appears within line k and
\* no byte ceiling, StreamResponse returns FoundContent = true and Content
\* equal to lines 1..k of the body, nothing of line k+1.
C12_ContentThroughStopLine ==
    (sPc = "done" /\ StreamOpened /\ sStop # "" /\ sMaxBytes = 0 /\ StopLineEnds # {})
        => /\ sResult.err = ""
           /\ sResult.FoundContent
           /\ \A e \in StopLineEnds :
                  (\A f \in StopLineEnds : e <= f) => sResult.Content = SubSeq(sBody, 1, e)

\* The stop-substring was found in the second line of a body of three lines.
C12_Witness ==
    /\ sPc = "done"
    /\ sStop = "b"
    /\ sMaxBytes = 0
    /\ sBody = NL \o "b" \o NL \o "a"
    /\ sResult.FoundContent
    /\ sResult.Content = NL \o "b" \o NL

\* C13: whenever the returned Content contains the non-empty stop-substring,
\* also across a line boundary, FoundContent is true and no line after the
\* one that completes the first occurrence was read.
C13_StopsOnAccumulatedContent ==
    (sPc = "done" /\ sResult.err = "" /\ sStop # "" /\ Contains(sResult.Content, sStop))
        => /\ sResult.FoundContent
           /\ \A i \in (Index(sResult.Content, sStop) + Len(sStop) - 1)
                         ..(Len(sResult.Content) - 1) :
                  SubSeq(sResult.Content, i, i) # NL

\* C14: with MaxBytes = M > 0 the reported BytesRead and the length of the
\* returned Content do not exceed M, and BytesRead is the number of bytes
\* accumulated in Content.
C14_CeilingBoundsReads ==
    (sPc = "done" /\ sResult.err = "" /\ sMaxBytes > 0)
        => /\ sResult.BytesRead <= sMaxBytes
           /\ Len(sResult.Content) <= sMaxBytes
           /\ sResult.BytesRead = Len(sResult.Content)

\* C15: a read error other than end-of-stream makes StreamResponse return a
\* failure and no result, also when the failing read delivered a last partial
\* line that contains the stop-substring; stopping on the ceiling, on the
\* stop-substring or at the end of the stream is a success.
C15_ReadErrorFails ==
    (sPc = "done" /\ StreamOpened)
        => IF sErr \notin {"", "EOF"}
           THEN sResult = streamFailure(sErr)
           ELSE sResult.err = ""

-----------------------------------------------------------------------------
(* Claims about dialTLS (SpecDial) *)

\* C16: the handshake races its deadline and the one that completes first
\* decides: if the context ends first, the raw connection is closed and an
\* error caused by the context is returned; if the handshake completes
\* successfully first, the established connection is returned open, not
\* closed by the timeout branch.
C16_FirstToCompleteDecides ==
    (dPc = "done" /\ dFirst # "")
        => IF dFirst = "context"
           THEN ~connOpen /\ ~dResult.conn /\ dResult.cause = ctxErr
           ELSE dFirst = "handshake" => connOpen /\ dResult.conn /\ dResult.err = ""

-----------------------------------------------------------------------------
(* Claims about Do on one goroutine (SpecDo) *)

\* The successful requests that came before the last call of Do, and the
\* referrer that call was given.
Before == IF doErr = "" THEN SubSeq(requested, 1, Len(requested) - 1) ELSE requested
ExplicitReferrer == IF Len(doOptions) > 0 THEN doOptions[1].Referrer ELSE ""

\* C18: in Do, without an explicit referrer the headers are built with the
\* most recent history entry, the URL of the last successful request, as the
\* referrer, and with an empty history no Referer header is generated; an
\* explicit referrer takes precedence over the history.
C18_AutomaticReferrer ==
    built = "build"
        => /\ ExplicitReferrer # ""
                => /\ hbReferrer = ExplicitReferrer
                   /\ HeaderGet(reqHeader, "Referer") = ExplicitReferrer
           /\ (ExplicitReferrer = "" /\ Before # << >>)
                => /\ hbReferrer = Before[Len(Before)]
                   /\ HeaderGet(reqHeader, "Referer") = Before[Len(Before)]
           /\ (ExplicitReferrer = "" /\ Before = << >>)
                => /\ hbReferrer = ""
                   /\ "Referer" \notin DOMAIN reqHeader

\* The third request follows two successful requests to different URLs and
\* names no referrer: its Referer is the second one's URL.
C18_Witness ==
    /\ built = "build"
    /\ doOptions = << >>
    /\ Len(Before) = 2
    /\ Before[1] # Before[2]
    /\ HeaderGet(reqHeader, "Referer") = Before[2]

\* C20: when the transport returns an error, Do returns that error and
\* leaves the navigation history as it was before the call, so the automatic
\* referrer of the next request is what it would have been without the
\* failed request.
C20_FailedDoLeavesHistory ==
    [][doErr' # ""
          => /\ history' = history
             /\ mergeOptions(<< >>, history') = mergeOptions(<< >>, history)]_vars

\* A request failed on a session that has a history.
C20_Witness ==
    /\ doErr # ""
    /\ history # << >>
    /\ history = requested

\* RequestOptions{Referrer: "https://r.example/"}: the options of a caller
\* who specifies a referrer and nothing else (a field not given is its zero
\* value).
OnlyReferrer == [IsNavigate |-> FALSE, Referrer |-> "https://r.example/", Origin |-> ""]

\* C22: for every option the caller does not specify the default applies; a
\* call that passes options only to set a Referrer is still treated as a
\* navigation.
C22_UnspecifiedOptionsDefault ==
    (built = "build" /\ doOptions = <<OnlyReferrer>>)
        => /\ hbIsNavigate = TRUE
           /\ HeaderGet(reqHeader, "Accept") = getNavigationAccept(detectBrowser(userAgent))

\* C24: a request made with Post is handed to the transport carrying the
\* Content-Type the caller gave: the Content-Type and Content-Length set by
\* Post are still on the request after Do has built the browser headers.
C24_PostKeepsContentType ==
    (built = "build" /\ "Content-Type" \in DOMAIN doHeader)
        => /\ HeaderGet(reqHeader, "Content-Type") = doHeader["Content-Type"]
           /\ HeaderGet(reqHeader, "Content-Length") = doHeader["Content-Length"]

-----------------------------------------------------------------------------
(* Claims about requests stamped in parallel (SpecStamp) *)

\* C23: when two requests run in parallel on the same session, the headers
\* built for each reflect that request's own context (its is-navigation
\* flag, referrer and origin), whatever the interleaving of SetContext and
\* BuildHeaders.
C23_OwnContextStamped ==
    \A g \in DOMAIN tpc :
        tpc[g] = "built"
            => /\ HeaderGet(theader[g], "Referer") = tctx[g].referrer
               /\ HeaderGet(theader[g], "Accept")
                     = IF tctx[g].isNavigate
                       THEN getNavigationAccept(detectBrowser(userAgent))
                       ELSE getResourceAccept("/")
               /\ HeaderGet(theader[g], "Origin")
                     = IF tctx[g].isNavigate THEN "" ELSE tctx[g].origin

-----------------------------------------------------------------------------
(* Claims about the cookie jar (SpecJar) *)

\* C17: ClearCookies replaces the jar atomically for concurrent readers: no
\* cookie call or request running in parallel with it meets bc.cookieJar and
\* bc.Client.Jar pointing to different jars.
C17_OneJarSeen ==
    \A p \in jarSeen : p[1] = p[2]

====
